---- MODULE Spec2Model ----
(***************************************************************************)
(* Value-generation and shrinking engine: strategies, value trees and the  *)
(* two-phase delete/shrink search of the bounded collection.               *)
(*                                                                         *)
(*   src/src/collection.rs                       VecStrategy, VecValueTree *)
(*   src/library/proptest/src/tuple.rs           TupleValueTree            *)
(*   src/library/proptest/src/strategy/flatten.rs FlattenValueTree         *)
(*                                                                         *)
(* A value tree is a record tagged by k ("leaf", "tuple", "vec",           *)
(* "flatten"); simplify/complicate are modelled as operators returning     *)
(* [ret, panic, tree]: the bool the call returns, whether it panicked, and *)
(* the tree after the call.  Indices are 0-based as in the source; the     *)
(* element at index ix is elements[ix + 1].                                *)
(***************************************************************************)
EXTENDS Integers, Sequences, FiniteSets, TLC

\* ------------------------------------------------------------------ bounds
\* Largest upper end of a collection's size bound.
MaxLen == 3
\* Largest exclusive upper end of an element range (values 0 .. MaxVal - 1).
MaxVal == 2
\* Largest tuple arity generated (the source instantiates 1 through 12).
MaxArity == 2
\* Number of past calls the driver's log keeps.
HistLen == 3

\* --------------------------------------------------------------- variables
VARIABLES
  phase,      \* "strategy": no tree yet; "meta": new_tree holds the meta tree;
              \* "live": the test case owns a tree; "rejected": new_tree gave none
  strat,      \* the strategy the test case draws from
  tree,       \* the value tree under test
  hist,       \* the last calls made on the tree: [op, ret, panic, before]
  simplified, \* some simplify() has returned true on this tree
  exhausted,  \* some simplify() has returned false on this tree
  delRun,     \* deleting simplify() calls since generation or the last complicate()
  delCount,   \* per index: how many simplify() calls have deleted it
  delOrder,   \* the indices deleted by simplify(), in the order of the calls
  shrOrder,   \* the indices whose element simplify() shrank, in order, repeats dropped
  conv        \* the size-bound conversion under test: [op, arg, out]

vars == <<phase, strat, tree, hist, simplified, exhausted, delRun, delCount,
          delOrder, shrOrder, conv>>

\* ------------------------------------------------------------------ Shrink
\* enum Shrink { DeleteElement(usize), ShrinkElement(usize) }
DeleteElement(ix) == [t |-> "DeleteElement", ix |-> ix]
ShrinkElement(ix) == [t |-> "ShrinkElement", ix |-> ix]
\* Option<Shrink>::None
NoShrink == [t |-> "None", ix |-> 0]
\* Option<Fuse<Tree>>::None and the absent tree before generation
NoTree == [k |-> "none"]

Result(ret, t) == [ret |-> ret, panic |-> FALSE, tree |-> t]
Panicked(t) == [ret |-> FALSE, panic |-> TRUE, tree |-> t]

\* ------------------------------------------------------------ element leaf
\* The element trees of the core are generic (T : ValueTree).  A leaf is an
\* element tree that abides by the Strategy / Value-Tree contract: simplify
\* moves to a simpler value and says so, complicate undoes exactly the most
\* recent successful simplify, once.
LeafTree(v, lo) == [k |-> "leaf", cur |-> v, lo |-> lo, has_prev |-> FALSE, prev |-> v]

LeafCurrent(self) == self.cur

LeafSimplify(self) ==
  IF self.cur > self.lo
  THEN Result(TRUE, [self EXCEPT !.cur = @ - 1, !.has_prev = TRUE, !.prev = self.cur])
  ELSE Result(FALSE, self)

LeafComplicate(self) ==
  IF self.has_prev
  THEN Result(TRUE, [self EXCEPT !.cur = self.prev, !.has_prev = FALSE])
  ELSE Result(FALSE, self)

\* ------------------------------------------------------------ integer search
\* The element tree of an integer range under a shrinking runner: a search
\* between lo, the simplest value, and hi, the last value kept; a value that
\* complicate has moved away from is never tried again.
BinarySearchNew(lo, start) == [k |-> "search", lo |-> lo, curr |-> start, hi |-> start]

BinarySearchCurrent(self) == self.curr

\* Move curr to the middle of lo..hi; false when it is there already.
Reposition(self) ==
  LET new_mid == self.lo + (self.hi - self.lo) \div 2
  IN IF new_mid = self.curr
     THEN Result(FALSE, self)
     ELSE Result(TRUE, [self EXCEPT !.curr = new_mid])

BinarySearchSimplify(self) ==
  IF self.hi <= self.lo
  THEN Result(FALSE, self)
  ELSE Reposition([self EXCEPT !.hi = self.curr])

BinarySearchComplicate(self) ==
  IF self.hi <= self.lo
  THEN Result(FALSE, self)
  ELSE Reposition([self EXCEPT !.lo = self.curr + 1])

RECURSIVE Current(_), Simplify(_), Complicate(_), NewTrees(_)

\* ------------------------------------------------------------------- tuple
TupleCurrent(self) == [i \in 1..Len(self.tree) |-> Current(self.tree[i])]

\* Variant: the tuple shrinks its first component.
TupleSimplify_Delegates(self) ==
  LET r == Simplify(self.tree[1])
  IN [r EXCEPT !.tree = [self EXCEPT !.tree[1] = r.tree]]

TupleSimplify(self) == Result(FALSE, self)

TupleComplicate(self) == Result(FALSE, self)

\* ----------------------------------------------------------------- flatten
FlattenCurrent(self) == Current(self.current)

\* Variant: the flatten tree shrinks its committed inner tree.
FlattenSimplify_Delegates(self) ==
  LET r == Simplify(self.current)
  IN [r EXCEPT !.tree = [self EXCEPT !.current = r.tree]]

FlattenSimplify(self) == Result(FALSE, self)

FlattenComplicate(self) == Result(FALSE, self)

\* --------------------------------------------------------------------- vec
VecLen(self) == Len(self.elements)

VecCurrent(self) ==
  LET F[i \in 0..VecLen(self)] ==
        IF i = 0 THEN <<>>
        ELSE IF (i - 1) \in self.included_elements
             THEN Append(F[i - 1], Current(self.elements[i]))
             ELSE F[i - 1]
  IN F[VecLen(self)]

RECURSIVE VecShrinkLoop(_)
\* Variant: the exhausted cursor is rewound to index 0 for a later retry.
VecShrinkLoop_Retry(self) ==
  IF self.shrink.t # "ShrinkElement" THEN Panicked(self)
  ELSE
    LET ix == self.shrink.ix IN
    IF ix >= VecLen(self) THEN Result(FALSE, [self EXCEPT !.shrink = ShrinkElement(0)])
    ELSE IF ix \notin self.included_elements
    THEN VecShrinkLoop([self EXCEPT !.shrink = ShrinkElement(ix + 1)])
    ELSE
      LET r == Simplify(self.elements[ix + 1])
          after == [self EXCEPT !.elements[ix + 1] = r.tree]
      IN IF ~r.ret
         THEN VecShrinkLoop([after EXCEPT !.shrink = ShrinkElement(ix + 1)])
         ELSE Result(TRUE, [after EXCEPT !.prev_shrink = self.shrink])

\* Variant: the loop does not look at the inclusion marker.
VecShrinkLoop_ShrinksExcluded(self) ==
  IF self.shrink.t # "ShrinkElement" THEN Panicked(self)
  ELSE
    LET ix == self.shrink.ix IN
    IF ix >= VecLen(self) THEN Result(FALSE, self)
    ELSE
      LET r == Simplify(self.elements[ix + 1])
          after == [self EXCEPT !.elements[ix + 1] = r.tree]
      IN IF ~r.ret
         THEN VecShrinkLoop([after EXCEPT !.shrink = ShrinkElement(ix + 1)])
         ELSE Result(TRUE, [after EXCEPT !.prev_shrink = self.shrink])

\* while let Shrink::ShrinkElement(ix) = self.shrink { ... } panic!(...)
VecShrinkLoop(self) ==
  IF self.shrink.t # "ShrinkElement" THEN Panicked(self)
  ELSE
    LET ix == self.shrink.ix IN
    IF ix >= VecLen(self) THEN Result(FALSE, self)
    ELSE IF ix \notin self.included_elements
    THEN VecShrinkLoop([self EXCEPT !.shrink = ShrinkElement(ix + 1)])
    ELSE
      LET r == Simplify(self.elements[ix + 1])
          after == [self EXCEPT !.elements[ix + 1] = r.tree]
      IN IF ~r.ret
         THEN VecShrinkLoop([after EXCEPT !.shrink = ShrinkElement(ix + 1)])
         ELSE Result(TRUE, [after EXCEPT !.prev_shrink = self.shrink])

\* Variant: the floor test is "below the minimum" instead of "at the minimum".
VecSimplify_FloorBelow(self) ==
  IF self.shrink.t = "DeleteElement"
  THEN
    LET ix == self.shrink.ix IN
    IF ix >= VecLen(self) \/ Cardinality(self.included_elements) < self.min_size
    THEN VecShrinkLoop([self EXCEPT !.shrink = ShrinkElement(0)])
    ELSE Result(TRUE, [self EXCEPT !.included_elements = @ \ {ix},
                                   !.prev_shrink = self.shrink,
                                   !.shrink = DeleteElement(ix + 1)])
  ELSE VecShrinkLoop(self)

\* Variant: the deletion phase ignores the minimum size.
VecSimplify_NoFloor(self) ==
  IF self.shrink.t = "DeleteElement"
  THEN
    LET ix == self.shrink.ix IN
    IF ix >= VecLen(self)
    THEN VecShrinkLoop([self EXCEPT !.shrink = ShrinkElement(0)])
    ELSE Result(TRUE, [self EXCEPT !.included_elements = @ \ {ix},
                                   !.prev_shrink = self.shrink,
                                   !.shrink = DeleteElement(ix + 1)])
  ELSE VecShrinkLoop(self)

\* Variant: the call that ends the deletion phase returns true at once.
VecSimplify_PhaseChangeReports(self) ==
  IF self.shrink.t = "DeleteElement"
  THEN
    LET ix == self.shrink.ix IN
    IF ix >= VecLen(self) \/ Cardinality(self.included_elements) = self.min_size
    THEN Result(TRUE, [self EXCEPT !.shrink = ShrinkElement(0)])
    ELSE Result(TRUE, [self EXCEPT !.included_elements = @ \ {ix},
                                   !.prev_shrink = self.shrink,
                                   !.shrink = DeleteElement(ix + 1)])
  ELSE VecShrinkLoop(self)

\* Variant: a deletion does not advance the cursor.
VecSimplify_CursorStays(self) ==
  IF self.shrink.t = "DeleteElement"
  THEN
    LET ix == self.shrink.ix IN
    IF ix >= VecLen(self) \/ Cardinality(self.included_elements) = self.min_size
    THEN VecShrinkLoop([self EXCEPT !.shrink = ShrinkElement(0)])
    ELSE Result(TRUE, [self EXCEPT !.included_elements = @ \ {ix},
                                   !.prev_shrink = self.shrink])
  ELSE VecShrinkLoop(self)

\* Variant: a deletion is not recorded as the last action.
VecSimplify_NoRecord(self) ==
  IF self.shrink.t = "DeleteElement"
  THEN
    LET ix == self.shrink.ix IN
    IF ix >= VecLen(self) \/ Cardinality(self.included_elements) = self.min_size
    THEN VecShrinkLoop([self EXCEPT !.shrink = ShrinkElement(0)])
    ELSE Result(TRUE, [self EXCEPT !.included_elements = @ \ {ix},
                                   !.shrink = DeleteElement(ix + 1)])
  ELSE VecShrinkLoop(self)

\* Variant: the end of the deletion phase leaves the cursor where it is.
VecSimplify_CursorNotSwitched(self) ==
  IF self.shrink.t = "DeleteElement"
  THEN
    LET ix == self.shrink.ix IN
    IF ix >= VecLen(self) \/ Cardinality(self.included_elements) = self.min_size
    THEN VecShrinkLoop(self)
    ELSE Result(TRUE, [self EXCEPT !.included_elements = @ \ {ix},
                                   !.prev_shrink = self.shrink,
                                   !.shrink = DeleteElement(ix + 1)])
  ELSE VecShrinkLoop(self)

VecSimplify(self) ==
  IF self.shrink.t = "DeleteElement"
  THEN
    LET ix == self.shrink.ix IN
    IF ix >= VecLen(self) \/ Cardinality(self.included_elements) = self.min_size
    THEN VecShrinkLoop([self EXCEPT !.shrink = ShrinkElement(0)])
    ELSE Result(TRUE, [self EXCEPT !.included_elements = @ \ {ix},
                                   !.prev_shrink = self.shrink,
                                   !.shrink = DeleteElement(ix + 1)])
  ELSE VecShrinkLoop(self)

\* Variant: undoing a deletion forgets the action without re-including the index.
VecComplicate_NoReinsert(self) ==
  IF self.prev_shrink.t = "None" THEN Result(FALSE, self)
  ELSE IF self.prev_shrink.t = "DeleteElement"
  THEN Result(TRUE, [self EXCEPT !.prev_shrink = NoShrink])
  ELSE
    LET ix == self.prev_shrink.ix
        r == Complicate(self.elements[ix + 1])
        after == [self EXCEPT !.elements[ix + 1] = r.tree]
    IN IF r.ret
       THEN Result(TRUE, after)
       ELSE Result(FALSE, [after EXCEPT !.prev_shrink = NoShrink])

\* Variant: undoing a deletion keeps the recorded action.
VecComplicate_KeepsAction(self) ==
  IF self.prev_shrink.t = "None" THEN Result(FALSE, self)
  ELSE IF self.prev_shrink.t = "DeleteElement"
  THEN Result(TRUE, [self EXCEPT !.included_elements = @ \cup {self.prev_shrink.ix}])
  ELSE
    LET ix == self.prev_shrink.ix
        r == Complicate(self.elements[ix + 1])
        after == [self EXCEPT !.elements[ix + 1] = r.tree]
    IN IF r.ret
       THEN Result(TRUE, after)
       ELSE Result(FALSE, [after EXCEPT !.prev_shrink = NoShrink])

\* Variant: with no recorded action the call still reports an undo.
VecComplicate_NoneReports(self) ==
  IF self.prev_shrink.t = "None" THEN Result(TRUE, self)
  ELSE IF self.prev_shrink.t = "DeleteElement"
  THEN Result(TRUE, [self EXCEPT !.included_elements = @ \cup {self.prev_shrink.ix},
                                 !.prev_shrink = NoShrink])
  ELSE
    LET ix == self.prev_shrink.ix
        r == Complicate(self.elements[ix + 1])
        after == [self EXCEPT !.elements[ix + 1] = r.tree]
    IN IF r.ret
       THEN Result(TRUE, after)
       ELSE Result(FALSE, [after EXCEPT !.prev_shrink = NoShrink])

\* Variant: undoing a deletion puts the cursor back on the re-included index.
VecComplicate_RewindsCursor(self) ==
  IF self.prev_shrink.t = "None" THEN Result(FALSE, self)
  ELSE IF self.prev_shrink.t = "DeleteElement"
  THEN Result(TRUE, [self EXCEPT !.included_elements = @ \cup {self.prev_shrink.ix},
                                 !.shrink = self.prev_shrink,
                                 !.prev_shrink = NoShrink])
  ELSE
    LET ix == self.prev_shrink.ix
        r == Complicate(self.elements[ix + 1])
        after == [self EXCEPT !.elements[ix + 1] = r.tree]
    IN IF r.ret
       THEN Result(TRUE, after)
       ELSE Result(FALSE, [after EXCEPT !.prev_shrink = NoShrink])

\* Variant: an element undo that succeeds forgets the recorded action.
VecComplicate_ForgetsOnSuccess(self) ==
  IF self.prev_shrink.t = "None" THEN Result(FALSE, self)
  ELSE IF self.prev_shrink.t = "DeleteElement"
  THEN Result(TRUE, [self EXCEPT !.included_elements = @ \cup {self.prev_shrink.ix},
                                 !.prev_shrink = NoShrink])
  ELSE
    LET ix == self.prev_shrink.ix
        r == Complicate(self.elements[ix + 1])
        after == [self EXCEPT !.elements[ix + 1] = r.tree]
    IN IF r.ret
       THEN Result(TRUE, [after EXCEPT !.prev_shrink = NoShrink])
       ELSE Result(FALSE, [after EXCEPT !.prev_shrink = NoShrink])

VecComplicate(self) ==
  IF self.prev_shrink.t = "None" THEN Result(FALSE, self)
  ELSE IF self.prev_shrink.t = "DeleteElement"
  THEN Result(TRUE, [self EXCEPT !.included_elements = @ \cup {self.prev_shrink.ix},
                                 !.prev_shrink = NoShrink])
  ELSE
    LET ix == self.prev_shrink.ix
        r == Complicate(self.elements[ix + 1])
        after == [self EXCEPT !.elements[ix + 1] = r.tree]
    IN IF r.ret
       THEN Result(TRUE, after)
       ELSE Result(FALSE, [after EXCEPT !.prev_shrink = NoShrink])

\* ---------------------------------------------------------------- dispatch
\* ------------------------------------------- strategy values and closures
RangeStrategy(lo, hi) == [k |-> "range", lo |-> lo, hi |-> hi]
\* lo..hi for a shrinking runner: its trees are integer searches
SearchStrategy(lo, hi) == [k |-> "search", lo |-> lo, hi |-> hi]
TupleStrategy(ss) == [k |-> "tuple", s |-> ss]
\* VecStrategy { element, size }; size is the inclusive SizeRange [start, end]
VecStrategy(element, start, end) ==
  [k |-> "vec", element |-> element, size |-> [start |-> start, end |-> end]]
\* Flatten { source }: the source's value is the strategy drawn from next
Flatten(source) == [k |-> "flatten", source |-> source]
\* IndFlatten(source)
IndFlatten(source) == [k |-> "ind_flatten", source |-> source]
\* IndFlattenMap { source, fun }
IndFlattenMap(source, fun) == [k |-> "ind_flatten_map", source |-> source, fun |-> fun]
\* Just(value): always the one value
Just(v) == [k |-> "just", value |-> v]
\* prop_map(source, fun): the source's value passed through a closure
MapStrategy(source, fun) == [k |-> "map", source |-> source, fun |-> fun]
\* A strategy whose generation may give up with a rejection (a local reject
\* of a filter); whence names the place, so that the rejection can be traced.
FilterStrategy(source, whence) == [k |-> "filter", source |-> source, whence |-> whence]
\* MinSize(usize)
MinSize(n) == [f |-> "MinSize", min |-> n]
\* FilterFn for MinSize: set.len() >= self.0 (the same body for HashSet,
\* BTreeSet, HashMap and BTreeMap)
MinSizeApply(self, set) == Cardinality(set) >= self.min
\* statics::Filter::new(source, whence, fun)
FilterFnStrategy(source, whence, fun) ==
  [k |-> "filter_fn", source |-> source, whence |-> whence, fun |-> fun]
\* TupleUnion::new(((w0, item0), (w1, item1), ...))
TupleUnion(options) == [k |-> "union", options |-> options]

\* Variant: the weights written before the options are dropped (every option
\* gets weight 1, as in the unweighted form).
PropOneof_Unweighted(options) ==
  IF Len(options) = 1 THEN options[1][2]
  ELSE TupleUnion([i \in 1..Len(options) |-> <<1, options[i][2]>>])

\* prop_oneof![w0 => item0, w1 => item1, ...]; options is the list of
\* <<weight, strategy>> pairs.  Exactly one option is returned unmodified.
PropOneof(options) ==
  IF Len(options) = 1 THEN options[1][2]
  ELSE TupleUnion(options)

\* Variant: the unweighted form weighs the options by their position.
PropOneofList_ByPosition(items) ==
  PropOneof([i \in 1..Len(items) |-> <<i - 1, items[i]>>])

\* prop_oneof![item0, item1, ...], the form without weights:
\* prop_oneof![1 => item0, 1 => item1, ...]
PropOneofList(items) ==
  PropOneof([i \in 1..Len(items) |-> <<1, items[i]>>])

\* The macro call prop_oneof![...] as written without weights.
OneofListStrategy(items) == [k |-> "prop_oneof_list", items |-> items]

\* The macro call prop_oneof![...] as written, weights included.
OneofStrategy(options) == [k |-> "prop_oneof", options |-> options]

\* SizeRange::extract
Extract(size) == <<size.start, size.end>>

\* num::sample_uniform_incl(runner, start, end): every outcome the runner
\* may draw.
SampleUniformIncl(start, end) == start..end

\* The strategy a meta value stands for: the dependent draw of flatten picks
\* the next strategy from the drawn value (values near it).
MetaStrategy(v) == RangeStrategy(v, v + 2)

\* prop_compose! nearby_numbers: centre in CentreLo..CentreHi, then a and b
\* in centre-Spread..centre+Spread.
CentreLo == -1000
CentreHi == 1000
Spread == 10

\* Variant: the second-stage ranges are inclusive of centre + Spread.
NearbyNumbers_Inclusive(centre) ==
  TupleStrategy(<<RangeStrategy(centre - Spread, centre + Spread + 1),
                  RangeStrategy(centre - Spread, centre + Spread + 1)>>)

\* The second stage of nearby_numbers: |centre| (centre-10..centre+10,
\* centre-10..centre+10).
NearbyNumbers(centre) ==
  TupleStrategy(<<RangeStrategy(centre - Spread, centre + Spread),
                  RangeStrategy(centre - Spread, centre + Spread)>>)

\* Variant: the element closure sets the low bit after the shift.
Shl1_LowBitSet(x) == x * 2 + 1

\* |x: i32| x << 1 (the arguments under test are far from the sign bit)
Shl1(x) == x * 2

\* VecToHashSet / VecToBTreeSet: vec.into_iter().collect()
VecToSet(v) == {v[i] : i \in DOMAIN v}

\* VecToHashMap / VecToBTreeMap: vec.into_iter().collect() over (key, value)
\* pairs; a later pair replaces an earlier one with the same key.  The map is
\* the set of its entries.
VecToMap(v) ==
  {v[i] : i \in {j \in DOMAIN v : \A l \in DOMAIN v : v[l][1] = v[j][1] => l <= j}}

\* The closures the strategies under test carry, by name.
Apply(fun, v) ==
  CASE fun = "around" -> MetaStrategy(v)
    [] fun = "shl1" -> Shl1(v)
    [] fun = "VecToHashSet" -> VecToSet(v)
    [] fun = "VecToBTreeSet" -> VecToSet(v)
    [] fun = "VecToHashMap" -> VecToMap(v)
    [] fun = "VecToBTreeMap" -> VecToMap(v)
    [] fun = "nearby" -> NearbyNumbers(v)
    [] fun = "pair" -> <<v[1], v[2]>>
    [] fun = "filtered" -> FilterStrategy(RangeStrategy(v, v + 2), 1)

\* Map and union trees are only read here: current() of a map tree is the
\* closure applied to the source's value, of a union tree the picked option's.
MapCurrent(self) == Apply(self.fun, Current(self.source))

UnionCurrent(self) == Current(self.tree)

\* A filtered tree exposes the value of the tree it wraps.
FilterCurrent(self) == Current(self.source)

Current(self) ==
  CASE self.k = "leaf" -> LeafCurrent(self)
    [] self.k = "filter_fn" -> FilterCurrent(self)
    [] self.k = "search" -> BinarySearchCurrent(self)
    [] self.k = "map" -> MapCurrent(self)
    [] self.k = "union" -> UnionCurrent(self)
    [] self.k = "tuple" -> TupleCurrent(self)
    [] self.k = "flatten" -> FlattenCurrent(self)
    [] self.k = "vec" -> VecCurrent(self)

Simplify(self) ==
  CASE self.k = "leaf" -> LeafSimplify(self)
    [] self.k = "search" -> BinarySearchSimplify(self)
    [] self.k = "tuple" -> TupleSimplify(self)
    [] self.k = "flatten" -> FlattenSimplify(self)
    [] self.k = "vec" -> VecSimplify(self)

Complicate(self) ==
  CASE self.k = "leaf" -> LeafComplicate(self)
    [] self.k = "search" -> BinarySearchComplicate(self)
    [] self.k = "tuple" -> TupleComplicate(self)
    [] self.k = "flatten" -> FlattenComplicate(self)
    [] self.k = "vec" -> VecComplicate(self)

\* -------------------------------------------------------------- strategies
\* Result<Tree, Reason>::Err(reason).  generated counts the components the
\* composite that returns it had generated before the rejection.
Rejected(reason, generated) ==
  [k |-> "rejected", reason |-> reason, generated |-> generated]
\* The Ok and the Err outcomes among a set of new_tree outcomes.
Oks(S) == {t \in S : t.k # "rejected"}
Errs(S) == {t \in S : t.k = "rejected"}

RangeNewTrees(s) == {LeafTree(v, s.lo) : v \in s.lo..(s.hi - 1)}

SearchNewTrees(s) == {BinarySearchNew(s.lo, v) : v \in s.lo..(s.hi - 1)}

JustNewTrees(s) == {LeafTree(s.value, s.value)}

FilterNewTrees(s) == NewTrees(s.source) \cup {Rejected(s.whence, 0)}

\* statics::Filter::new_tree: a drawn tree whose value passes the filter is
\* returned wrapped; draws that fail it are local rejects, and the runner
\* gives up with the filter's whence once it has seen too many of them.
FilterFnNewTrees(s) ==
  LET src == NewTrees(s.source)
      pass == {t \in Oks(src) : MinSizeApply(s.fun, Current(t))}
  IN {[k |-> "filter_fn", source |-> t, fun |-> s.fun] : t \in pass}
       \cup (IF Oks(src) \ pass # {} THEN {Rejected(s.whence, 0)} ELSE {})
       \cup Errs(src)

MapNewTrees(s) ==
  LET src == NewTrees(s.source)
  IN {[k |-> "map", source |-> t, fun |-> s.fun] : t \in Oks(src)} \cup Errs(src)

\* The weighted pick of the union: an option is drawn with probability
\* proportional to its weight, then generation is delegated to it.
UnionNewTrees(s) ==
  UNION {LET src == NewTrees(s.options[i][2])
         IN {[k |-> "union", pick |-> i - 1, tree |-> t] : t \in Oks(src)}
              \cup Errs(src) :
           i \in {j \in 1..Len(s.options) : s.options[j][1] > 0}}

\* The components 1..j-1 can all be generated.
CanReach(s, j) == \A i \in 1..(j - 1) : Oks(NewTrees(s.s[i])) # {}

\* Variant: every component is generated before a rejection is returned.
TupleNewTrees_CollectThenFail(s) ==
  LET n == Len(s.s) IN
  {[k |-> "tuple", tree |-> ts] :
     ts \in {f \in [1..n -> UNION {Oks(NewTrees(s.s[i])) : i \in 1..n}] :
               \A i \in 1..n : f[i] \in NewTrees(s.s[i])}}
  \cup UNION {{Rejected(e.reason, n - 1) : e \in Errs(NewTrees(s.s[j]))} :
                j \in {i \in 1..n : CanReach(s, i)}}

\* let values = ($(self.$fld.new_tree(runner)?,)*): the components are
\* generated in order and the first rejection is returned at once.
TupleNewTrees(s) ==
  LET n == Len(s.s) IN
  {[k |-> "tuple", tree |-> ts] :
     ts \in {f \in [1..n -> UNION {Oks(NewTrees(s.s[i])) : i \in 1..n}] :
               \A i \in 1..n : f[i] \in NewTrees(s.s[i])}}
  \cup UNION {{Rejected(e.reason, j - 1) : e \in Errs(NewTrees(s.s[j]))} :
                j \in {i \in 1..n : CanReach(s, i)}}

\* Ok(VecValueTree { elements, included_elements: (0..max_size).collect(),
\*                   min_size: start, shrink: DeleteElement(0), prev_shrink: None })
VecValueTreeNew(elements, start) ==
  [k |-> "vec",
   elements |-> elements,
   included_elements |-> 0..(Len(elements) - 1),
   min_size |-> start,
   shrink |-> DeleteElement(0),
   prev_shrink |-> NoShrink]

\* Variant: the exclusive end of the size bound is passed as the inclusive one.
VecNewTrees_EndExcl(s) ==
  LET start == Extract(s.size)[1]
      end == Extract(s.size)[2]
      src == NewTrees(s.element)
  IN UNION {
       {VecValueTreeNew(elements, start) : elements \in [1..max_size -> Oks(src)]}
       \cup {Rejected(e.reason, j - 1) :
               e \in Errs(src), j \in {i \in 1..max_size : i = 1 \/ Oks(src) # {}}} :
       max_size \in SampleUniformIncl(start, end + 1)}

\* The elements are pushed in order; elements.push(new_tree(runner)?) returns
\* the first rejection at once.
VecNewTrees(s) ==
  LET start == Extract(s.size)[1]
      end == Extract(s.size)[2]
      src == NewTrees(s.element)
  IN UNION {
       {VecValueTreeNew(elements, start) : elements \in [1..max_size -> Oks(src)]}
       \cup {Rejected(e.reason, j - 1) :
               e \in Errs(src), j \in {i \in 1..max_size : i = 1 \/ Oks(src) # {}}} :
       max_size \in SampleUniformIncl(start, end)}

\* FlattenValueTree::new: let current = meta.current().new_tree(runner)?
FlattenNew(meta) ==
  LET src == NewTrees(Current(meta))
  IN {[k |-> "flatten",
       meta |-> meta,
       current |-> current,
       final_complication |-> NoTree,
       complicate_regen_remaining |-> 0] : current \in Oks(src)}
     \cup {Rejected(e.reason, 1) : e \in Errs(src)}

\* let meta = self.source.new_tree(runner)?; FlattenValueTree::new(runner, meta)
FlattenNewTrees(s) ==
  LET src == NewTrees(s.source)
  IN UNION {FlattenNew(meta) : meta \in Oks(src)}
       \cup {Rejected(e.reason, 0) : e \in Errs(src)}

\* let inner = self.0.new_tree(runner)?; inner.current().new_tree(runner)
IndFlattenNewTrees(s) ==
  LET src == NewTrees(s.source)
  IN UNION {LET inner == NewTrees(Current(meta))
            IN Oks(inner) \cup {Rejected(e.reason, 1) : e \in Errs(inner)} :
              meta \in Oks(src)}
       \cup {Rejected(e.reason, 0) : e \in Errs(src)}

\* Variant: the right tree is drawn for a left value generated afresh.
IndFlattenMapNewTrees_FreshLeft(s) ==
  LET src == NewTrees(s.source)
  IN UNION {LET right == UNION {NewTrees(Apply(s.fun, Current(l))) : l \in Oks(src)}
            IN {[k |-> "tuple", tree |-> <<left, r>>] : r \in Oks(right)}
                 \cup {Rejected(e.reason, 1) : e \in Errs(right)} :
              left \in Oks(src)}
       \cup {Rejected(e.reason, 0) : e \in Errs(src)}

\* left = source.new_tree(runner)?; right = fun(left.current()).new_tree(runner)?
IndFlattenMapNewTrees(s) ==
  LET src == NewTrees(s.source)
  IN UNION {LET right == NewTrees(Apply(s.fun, Current(left)))
            IN {[k |-> "tuple", tree |-> <<left, r>>] : r \in Oks(right)}
                 \cup {Rejected(e.reason, 1) : e \in Errs(right)} :
              left \in Oks(src)}
       \cup {Rejected(e.reason, 0) : e \in Errs(src)}

NewTrees(s) ==
  CASE s.k = "range" -> RangeNewTrees(s)
    [] s.k = "just" -> JustNewTrees(s)
    [] s.k = "filter" -> FilterNewTrees(s)
    [] s.k = "filter_fn" -> FilterFnNewTrees(s)
    [] s.k = "search" -> SearchNewTrees(s)
    [] s.k = "map" -> MapNewTrees(s)
    [] s.k = "union" -> UnionNewTrees(s)
    [] s.k = "prop_oneof" -> NewTrees(PropOneof(s.options))
    [] s.k = "prop_oneof_list" -> NewTrees(PropOneofList(s.items))
    [] s.k = "tuple" -> TupleNewTrees(s)
    [] s.k = "vec" -> VecNewTrees(s)
    [] s.k = "flatten" -> FlattenNewTrees(s)
    [] s.k = "ind_flatten" -> IndFlattenNewTrees(s)
    [] s.k = "ind_flatten_map" -> IndFlattenMapNewTrees(s)

\* ------------------------------------------------------------- SizeRange
\* usize is UsizeBits wide.
UsizeBits == 7
UsizeMax == 2^UsizeBits - 1

\* The outcome of an expression: a value, or a panic.
Ok(v) == [panic |-> FALSE, val |-> v]
Panic == [panic |-> TRUE]

\* x + y and x - y on usize.  On overflow a build with overflow checks
\* panics and a build without them wraps.
AddUsize(x, y) ==
  IF x + y > UsizeMax THEN {Panic, Ok((x + y) % (UsizeMax + 1))} ELSE {Ok(x + y)}
SubUsize(x, y) ==
  IF x - y < 0 THEN {Panic, Ok((x - y) % (UsizeMax + 1))} ELSE {Ok(x - y)}

\* Range<usize> { start, end }
Range(start, end) == [k |-> "Range", start |-> start, end |-> end]
\* SizeRange::new(start..=end)
SizeRangeNew(start, end) == [start |-> start, end |-> end]

\* From<RangeInclusive<usize>> for SizeRange
FromRangeInclusive(start, end) == {Ok(SizeRangeNew(start, end))}

\* Variant: the exclusive end is kept as the inclusive one.
FromRange_NoDecrement(r) == {Ok(SizeRangeNew(r.start, r.end))}

\* From<Range<usize>> for SizeRange: size_range(r.start..=r.end - 1)
FromRange(r) ==
  {IF e.panic THEN Panic ELSE Ok(SizeRangeNew(r.start, e.val)) : e \in SubUsize(r.end, 1)}

\* From<(usize, usize)> for SizeRange: size_range(low..high)
FromPair(low, high) == FromRange(Range(low, high))

\* From<usize> for SizeRange: size_range(exact..=exact)
FromExact(exact) == FromRangeInclusive(exact, exact)

\* From<RangeTo<usize>> for SizeRange: size_range(0..high.end)
FromRangeTo(high) == FromRange(Range(0, high))

\* From<RangeToInclusive<usize>> for SizeRange: size_range(0..=high.end)
FromRangeToInclusive(high) == FromRangeInclusive(0, high)

\* SizeRange::default(): size_range(0..100)
DefaultEnd == 100
Default == FromRange(Range(0, DefaultEnd))

\* Arbitrary for Vec<A>: vec(A::arbitrary_with(parameters), SizeRange::default())
ArbitraryVec(element) ==
  {IF d.panic THEN Panic ELSE Ok(VecStrategy(element, d.val.start, d.val.end)) :
     d \in Default}

\* Variant: the exclusive end is end + 1 whatever the end is.
EndExcl_NoClamp(sr) == (sr.end + 1) % (UsizeMax + 1)

\* SizeRange::end_excl
EndExcl(sr) == IF UsizeMax = sr.end THEN sr.end ELSE sr.end + 1

\* From<SizeRange> for Range<usize>: start..end + 1
IntoRange(sr) ==
  LET start == Extract(sr)[1]
      end == Extract(sr)[2]
  IN {IF e.panic THEN Panic ELSE Ok(Range(start, e.val)) : e \in AddUsize(end, 1)}

\* A half-open range to a size bound, back to a half-open range, and forward
\* again; a panic on the way ends the trip.
RoundTrip(r) ==
  UNION {IF sr.panic THEN {[sr |-> sr, back |-> Panic, again |-> Panic]}
         ELSE UNION {IF back.panic THEN {[sr |-> sr, back |-> back, again |-> Panic]}
                     ELSE {[sr |-> sr, back |-> back, again |-> again] :
                             again \in FromRange(back.val)} :
                       back \in IntoRange(sr.val)} :
           sr \in FromRange(r)}

\* ------------------------------------------------------------ collections
\* size.into() for a size bound that is built without a panic
Into(outs) == (CHOOSE o \in outs : ~o.panic).val

\* vec(element, size): VecStrategy { element, size: size.into() }
Vec(element, size) == VecStrategy(element, size.start, size.end)

\* Variant: the set is filtered against a minimum of 0.
HashSet_NoMinimum(element, size) ==
  FilterFnStrategy(MapStrategy(Vec(element, size), "VecToHashSet"),
                   "HashSet minimum size", MinSize(0))

\* hash_set(element, size)
HashSet(element, size) ==
  FilterFnStrategy(MapStrategy(Vec(element, size), "VecToHashSet"),
                   "HashSet minimum size", MinSize(size.start))

\* btree_set(element, size)
BTreeSet(element, size) ==
  FilterFnStrategy(MapStrategy(Vec(element, size), "VecToBTreeSet"),
                   "BTreeSet minimum size", MinSize(size.start))

\* hash_map(key, value, size)
HashMap(key, value, size) ==
  FilterFnStrategy(MapStrategy(Vec(TupleStrategy(<<key, value>>), size), "VecToHashMap"),
                   "HashMap minimum size", MinSize(size.start))

\* btree_map(key, value, size)
BTreeMap(key, value, size) ==
  FilterFnStrategy(MapStrategy(Vec(TupleStrategy(<<key, value>>), size), "VecToBTreeMap"),
                   "BTreeMap minimum size", MinSize(size.start))

\* No conversion is under test.
NoConv == [op |-> "none"]

\* ---------------------------------------------------------- the test cases
ElementStrategies ==
  {RangeStrategy(0, MaxVal), TupleStrategy(<<RangeStrategy(0, 2)>>)}

Strategies ==
  {VecStrategy(e, b[1], b[2]) :
     e \in ElementStrategies,
     b \in {c \in (0..MaxLen) \X (0..MaxLen) : c[1] <= c[2]}}
  \cup {TupleStrategy([i \in 1..n |-> RangeStrategy(0, 2)]) : n \in 1..MaxArity}
  \cup {Flatten(MapStrategy(RangeStrategy(0, 2), "around"))}
  \cup {VecStrategy(VecStrategy(RangeStrategy(0, MaxVal), 0, 1), 1, 2)}
  \cup {IndFlattenMap(RangeStrategy(0, MaxVal + 1), "around")}

\* ------------------------------------------------------------- the driver
\* What one call did to the included set: the indices it removed.
Removed(before, after) ==
  IF before.k = "vec" THEN before.included_elements \ after.included_elements ELSE {}

\* The indices whose element value one call changed.
Changed(before, after) ==
  IF before.k = "vec"
  THEN {i \in 0..(VecLen(before) - 1) :
          Current(after.elements[i + 1]) # Current(before.elements[i + 1])}
  ELSE {}

\* The order log o extended by the indices in set S (one call touches at most one).
Extend(o, S) ==
  IF S = {} THEN o
  ELSE LET i == CHOOSE x \in S : TRUE
       IN IF o # <<>> /\ o[Len(o)] = i /\ S = {i} THEN o ELSE Append(o, i)

Call(op, r) == [op |-> op, ret |-> r.ret, panic |-> r.panic, before |-> tree]

Log(h, c) == IF Len(h) < HistLen THEN Append(h, c) ELSE Append(Tail(h), c)

Init ==
  /\ phase = "strategy"
  /\ strat \in Strategies
  /\ tree = NoTree
  /\ hist = <<>>
  /\ simplified = FALSE
  /\ exhausted = FALSE
  /\ delRun = 0
  /\ delCount = <<>>
  /\ delOrder = <<>>
  /\ shrOrder = <<>>
  /\ conv = NoConv

\* Strategy::new_tree(runner): one fresh value tree per test case.
NewTree ==
  /\ phase = "strategy"
  /\ \E t \in NewTrees(strat) :
       /\ tree' = t
       /\ phase' = IF t.k = "rejected" THEN "rejected" ELSE "live"
       /\ delCount' = IF t.k = "vec" THEN [i \in 0..(VecLen(t) - 1) |-> 0] ELSE <<>>
  /\ UNCHANGED <<strat, hist, simplified, exhausted, delRun, delOrder, shrOrder, conv>>

\* tree.simplify()
CallSimplify ==
  /\ phase = "live"
  /\ LET r == Simplify(tree)
         gone == Removed(tree, r.tree)
     IN /\ tree' = r.tree
        /\ hist' = Log(hist, Call("simplify", r))
        /\ simplified' = (simplified \/ r.ret)
        /\ exhausted' = (exhausted \/ ~r.ret)
        /\ delRun' = IF gone # {} THEN delRun + 1 ELSE delRun
        /\ delCount' = [i \in DOMAIN delCount |->
                          IF i \in gone THEN delCount[i] + 1 ELSE delCount[i]]
        /\ delOrder' = IF gone = {} THEN delOrder
                       ELSE Append(delOrder, CHOOSE x \in gone : TRUE)
        /\ shrOrder' = IF r.ret THEN Extend(shrOrder, Changed(tree, r.tree))
                       ELSE shrOrder
  /\ UNCHANGED <<phase, strat, conv>>

\* tree.complicate()
CallComplicate ==
  /\ phase = "live"
  /\ LET r == Complicate(tree)
     IN /\ tree' = r.tree
        /\ hist' = Log(hist, Call("complicate", r))
  /\ delRun' = 0
  /\ UNCHANGED <<phase, strat, simplified, exhausted, delCount, delOrder, shrOrder, conv>>

Next == NewTree \/ CallSimplify \/ CallComplicate

Spec == Init /\ [][Next]_vars

\* ------------------------------------------------------- the shrink search
\* The last call made on the tree was a simplify() that returned false.
SimplifyFailed == Len(hist) >= 1 /\ hist[Len(hist)].op = "simplify" /\ ~hist[Len(hist)].ret

\* The search calls simplify() for as long as it returns true ...
SearchSimplify ==
  /\ ~SimplifyFailed
  /\ CallSimplify

\* ... and complicate() when simplify() has returned false; it is over when
\* that returns false as well.
SearchComplicate ==
  /\ phase = "live"
  /\ SimplifyFailed
  /\ LET r == Complicate(tree)
     IN /\ tree' = r.tree
        /\ hist' = Log(hist, Call("complicate", r))
        /\ phase' = IF r.ret THEN "live" ELSE "done"
  /\ delRun' = 0
  /\ UNCHANGED <<strat, simplified, exhausted, delCount, delOrder, shrOrder, conv>>

NextSearch == NewTree \/ SearchSimplify \/ SearchComplicate

\* The search is a sequential loop: it keeps making calls until it is over.
SpecSearch == Init /\ [][NextSearch]_vars /\ WF_vars(NextSearch)

\* ------------------------------------------------- generation on its own
\* nearby_numbers(): prop_map(prop_flat_map(centre, |centre| (a, b)), body),
\* where prop_flat_map(s, f) is Flatten(Map(s, f)).
NearbyStrategy ==
  MapStrategy(Flatten(MapStrategy(RangeStrategy(CentreLo, CentreHi), "nearby")), "pair")

ComposeStrategies == {NearbyStrategy}

InitCompose ==
  /\ phase = "strategy"
  /\ strat \in ComposeStrategies
  /\ tree = NoTree
  /\ hist = <<>>
  /\ simplified = FALSE
  /\ exhausted = FALSE
  /\ delRun = 0
  /\ delCount = <<>>
  /\ delOrder = <<>>
  /\ shrOrder = <<>>
  /\ conv = NoConv

\* new_tree of a mapped flatten, one draw of the runner per step.
\* Flatten::new_tree, first statement: let meta = self.source.new_tree(runner)?
NewMeta ==
  /\ phase = "strategy"
  /\ strat.k = "map" /\ strat.source.k = "flatten"
  /\ \E meta \in NewTrees(strat.source.source) :
       /\ tree' = meta
       /\ phase' = IF meta.k = "rejected" THEN "rejected" ELSE "meta"
  /\ UNCHANGED <<strat, hist, simplified, exhausted, delRun, delCount, delOrder, shrOrder, conv>>

\* Flatten::new_tree, second statement: FlattenValueTree::new(runner, meta);
\* the map around the flatten wraps the tree it returns.
NewCurrent ==
  /\ phase = "meta"
  /\ \E t \in FlattenNew(tree) :
       /\ tree' = IF t.k = "rejected" THEN t
                  ELSE [k |-> "map", source |-> t, fun |-> strat.fun]
       /\ phase' = IF t.k = "rejected" THEN "rejected" ELSE "live"
  /\ UNCHANGED <<strat, hist, simplified, exhausted, delRun, delCount, delOrder, shrOrder, conv>>

NextCompose == NewMeta \/ NewCurrent

SpecCompose == InitCompose /\ [][NextCompose]_vars

\* The weighted choice lists under test: the options of one_of.rs, in their
\* order, the first n of them under every weighting of 0..MaxWeight that
\* gives the list a strategy (a union needs a non-zero total weight).
MaxWeight == 2
OneofItems == <<Just(0), Just(2), Just(3)>>

OneofStrategies ==
  UNION {{OneofStrategy([i \in 1..n |-> <<w[i], OneofItems[i]>>]) :
            w \in {v \in [1..n -> 0..MaxWeight] : n = 1 \/ \E i \in 1..n : v[i] > 0}} :
           n \in 1..Len(OneofItems)}

\* Composites with a component that may reject.  A rejecting component is
\* labelled with the number of components generated before it.
RejectingStrategies ==
  LET R == RangeStrategy(0, MaxVal) IN
  {TupleStrategy(<<FilterStrategy(R, 0), FilterStrategy(R, 1)>>),
   TupleStrategy(<<R, FilterStrategy(R, 1)>>),
   TupleStrategy(<<FilterStrategy(R, 0), R>>),
   VecStrategy(FilterStrategy(R, 0), 0, MaxLen - 1),
   VecStrategy(FilterStrategy(R, 0), 1, MaxLen - 1),
   Flatten(MapStrategy(FilterStrategy(R, 0), "around")),
   Flatten(MapStrategy(R, "filtered")),
   Flatten(MapStrategy(FilterStrategy(R, 0), "filtered")),
   IndFlatten(MapStrategy(FilterStrategy(R, 0), "around")),
   IndFlatten(MapStrategy(R, "filtered")),
   IndFlatten(MapStrategy(FilterStrategy(R, 0), "filtered")),
   IndFlattenMap(FilterStrategy(R, 0), "around"),
   IndFlattenMap(R, "filtered"),
   IndFlattenMap(FilterStrategy(R, 0), "filtered")}

\* The same options listed without weights, the first n of them.
OneofListStrategies ==
  {OneofListStrategy(SubSeq(OneofItems, 1, n)) : n \in 1..Len(OneofItems)}

\* vector_even_sums: vec((0..10).prop_map(|x: i32| x << 1), 0..2)
EvenHi == 10
EvenLenEnd == 2
VecEvenStrategy ==
  Vec(MapStrategy(RangeStrategy(0, EvenHi), "shl1"), Into(FromRange(Range(0, EvenLenEnd))))

\* test_set and test_map: a string strategy is the range of the indices of the
\* strings its pattern matches; "[ab]{3}" matches KeyCount strings and "a"
\* matches ValueCount.  The size bound is 2..3.
KeyCount == 8
ValueCount == 1
SetLenStart == 2
SetLenEnd == 3
TestSetStrategies ==
  LET size == Into(FromRange(Range(SetLenStart, SetLenEnd)))
      key == RangeStrategy(0, KeyCount)
      value == RangeStrategy(0, ValueCount)
  IN {HashSet(key, size), BTreeSet(key, size),
      HashMap(key, value, size), BTreeMap(key, value, size)}

\* Sets and maps over few values, so that duplicates are common, under every
\* inclusive size bound [low, high] up to MaxLen.
SetStrategies ==
  UNION {LET size == Into(FromRangeInclusive(b[1], b[2]))
             key == RangeStrategy(0, MaxVal)
         IN {HashSet(key, size), BTreeSet(key, size),
             HashMap(key, RangeStrategy(0, 2), size),
             BTreeMap(key, RangeStrategy(0, 2), size)} :
           b \in {c \in (0..MaxLen) \X (0..MaxLen) : c[1] <= c[2]}}

GenStrategies ==
  OneofStrategies \cup OneofListStrategies \cup RejectingStrategies
    \cup {VecEvenStrategy} \cup TestSetStrategies \cup SetStrategies

InitGen ==
  /\ phase = "strategy"
  /\ strat \in GenStrategies
  /\ tree = NoTree
  /\ hist = <<>>
  /\ simplified = FALSE
  /\ exhausted = FALSE
  /\ delRun = 0
  /\ delCount = <<>>
  /\ delOrder = <<>>
  /\ shrOrder = <<>>
  /\ conv = NoConv

\* One test case is one new_tree call on the strategy under test.
NextGen == NewTree

SpecGen == InitGen /\ [][NextGen]_vars

\* ------------------------------------------------------- the shrinking runner
RECURSIVE SumSeq(_)
SumSeq(v) == IF Len(v) = 0 THEN 0 ELSE v[1] + SumSeq(Tail(v))

\* test_vec: vec(1usize..20usize, 5..20), and a body that fails when the sum
\* of the elements is not below FailSum.
ElemLo == 1
ElemHi == 20
LenStart == 5
LenEnd == 20
FailSum == 9
TestVecStrategy ==
  Vec(SearchStrategy(ElemLo, ElemHi), Into(FromRange(Range(LenStart, LenEnd))))

\* prop_assert!(v.iter().sum() < 9): the body fails on v
Fails(v) == ~(SumSeq(v) < FailSum)

\* The trees of TestVecStrategy under test: up to MaxRunLen elements, all
\* drawn from one of a few families of values.
MaxRunLen == 10
RunTrees ==
  LET Families == {{ElemLo, ElemLo + 1}, {ElemLo, ElemHi - 1}, {ElemLo + 2, ElemLo + 3}}
  IN UNION {{VecValueTreeNew(elements, TestVecStrategy.size.start) :
               elements \in [1..n -> {BinarySearchNew(ElemLo, v) : v \in f}]} :
              n \in LenStart..MaxRunLen, f \in Families}

InitRun ==
  /\ phase = "run"
  /\ strat = TestVecStrategy
  /\ tree \in RunTrees
  /\ hist = <<>>
  /\ simplified = FALSE
  /\ exhausted = FALSE
  /\ delRun = 0
  /\ delCount = <<>>
  /\ delOrder = <<>>
  /\ shrOrder = <<>>
  /\ conv = NoConv

\* run_one: the body is run on the generated value; a pass ends the case and
\* a failure starts the search for a simpler failing value.
RunTest ==
  /\ phase = "run"
  /\ phase' = IF Fails(Current(tree)) THEN "simplify" ELSE "passed"
  /\ UNCHANGED <<strat, tree, hist, simplified, exhausted, delRun, delCount,
                 delOrder, shrOrder, conv>>

\* After a failure the tree is simplified; when it cannot be, the search is
\* over and the current value is reported.
ShrinkSimplify ==
  /\ phase = "simplify"
  /\ LET r == Simplify(tree)
     IN /\ tree' = r.tree
        /\ hist' = Log(hist, Call("simplify", r))
        /\ phase' = IF r.ret THEN "rerun" ELSE "reported"
  /\ UNCHANGED <<strat, simplified, exhausted, delRun, delCount, delOrder,
                 shrOrder, conv>>

\* After a pass the last simplification is undone; when nothing can be
\* undone, the search is over.
ShrinkComplicate ==
  /\ phase = "complicate"
  /\ LET r == Complicate(tree)
     IN /\ tree' = r.tree
        /\ hist' = Log(hist, Call("complicate", r))
        /\ phase' = IF r.ret THEN "rerun" ELSE "reported"
  /\ UNCHANGED <<strat, simplified, exhausted, delRun, delCount, delOrder,
                 shrOrder, conv>>

\* The body is run on the new current value.
ShrinkTest ==
  /\ phase = "rerun"
  /\ phase' = IF Fails(Current(tree)) THEN "simplify" ELSE "complicate"
  /\ UNCHANGED <<strat, tree, hist, simplified, exhausted, delRun, delCount,
                 delOrder, shrOrder, conv>>

NextRun == RunTest \/ ShrinkSimplify \/ ShrinkComplicate \/ ShrinkTest

SpecRun == InitRun /\ [][NextRun]_vars

\* ------------------------------------------------ SizeRange under test
\* The arguments a conversion is tried on: two ends, in any order.
Pending(a, b) == [op |-> "pending", arg |-> [a |-> a, b |-> b]]

InitSize ==
  /\ phase = "strategy"
  /\ strat = RangeStrategy(0, MaxVal)
  /\ tree = NoTree
  /\ hist = <<>>
  /\ simplified = FALSE
  /\ exhausted = FALSE
  /\ delRun = 0
  /\ delCount = <<>>
  /\ delOrder = <<>>
  /\ shrOrder = <<>>
  /\ conv \in {Pending(a, b) : a \in 0..UsizeMax, b \in 0..UsizeMax}

\* One conversion applied to the arguments, with one of its outcomes.
Convert(op, outs) ==
  /\ conv.op = "pending"
  /\ \E o \in outs : conv' = [op |-> op, arg |-> conv.arg, out |-> o]
  /\ UNCHANGED <<phase, strat, tree, hist, simplified, exhausted, delRun, delCount,
                 delOrder, shrOrder>>

ConvertPair == Convert("pair", FromPair(conv.arg.a, conv.arg.b))
ConvertExact == Convert("exact", FromExact(conv.arg.a))
ConvertRangeTo == Convert("range_to", FromRangeTo(conv.arg.b))
ConvertRange == Convert("range", FromRange(Range(conv.arg.a, conv.arg.b)))
ConvertRangeInclusive ==
  Convert("range_inclusive", FromRangeInclusive(conv.arg.a, conv.arg.b))
ConvertRangeToInclusive == Convert("range_to_inclusive", FromRangeToInclusive(conv.arg.b))
ConvertDefault == Convert("default", Default)
ConvertArbitraryVec ==
  Convert("arbitrary_vec",
          {IF v.panic THEN Panic ELSE Ok(v.val.size) : v \in ArbitraryVec(strat)})
ConvertEndExcl == Convert("end_excl", {Ok(EndExcl(SizeRangeNew(conv.arg.a, conv.arg.b)))})
ConvertIntoRange == Convert("into_range", IntoRange(SizeRangeNew(conv.arg.a, conv.arg.b)))
ConvertRoundTrip == Convert("round_trip", RoundTrip(Range(conv.arg.a, conv.arg.b)))

NextSize ==
  \/ ConvertPair
  \/ ConvertExact
  \/ ConvertRangeTo
  \/ ConvertRange
  \/ ConvertRangeInclusive
  \/ ConvertRangeToInclusive
  \/ ConvertDefault
  \/ ConvertArbitraryVec
  \/ ConvertEndExcl
  \/ ConvertIntoRange
  \/ ConvertRoundTrip

SpecSize == InitSize /\ [][NextSize]_vars

\* ------------------------------------------------------ the time stand-in
\* i64 and u64 are kept at TimeBits bits: i64 is I64Min..I64Max, u64 is
\* 0..U64Max.
TimeBits == 4
I64Max == 2^(TimeBits - 1) - 1
I64Min == -(2^(TimeBits - 1))
U64Max == 2^TimeBits - 1
U64Min == 0

\* const NSEC_PER_SEC: u64 = 1_000_000_000
NSEC_PER_SEC == 1000000000

\* Option<T>
Some(v) == [some |-> TRUE, val |-> v]
None == [some |-> FALSE]

\* i64::checked_add and i64::checked_sub
CheckedAdd(x, y) == IF x + y \in I64Min..I64Max THEN Some(x + y) ELSE None
CheckedSub(x, y) == IF x - y \in I64Min..I64Max THEN Some(x - y) ELSE None

\* num1 as i64: the same bits read as a signed number
AsI64(u) == IF u > I64Max THEN u - (U64Max + 1) ELSE u

\* i64::try_from(num1).ok()
TryFromU64(num1) == IF num1 <= I64Max THEN Some(num1) ELSE None

\* The code the stubs are documented to stand for:
\* other.as_secs().try_into().ok().and_then(|secs| self.tv_sec.checked_add(secs))
DocCheckedAdd(num1, num2) ==
  LET secs == TryFromU64(num1)
  IN IF secs.some THEN CheckedAdd(num2, secs.val) ELSE None

\* ... .and_then(|secs| self.tv_sec.checked_sub(secs))
DocCheckedSub(num1, num2) ==
  LET secs == TryFromU64(num1)
  IN IF secs.some THEN CheckedSub(num2, secs.val) ELSE None

\* Timespec::stub_checked_add(num1: u64, num2: i64)
StubCheckedAdd(num1, num2) ==
  IF num1 < U64Max \div 2 /\ num1 > U64Min \div 2
  THEN LET unum1 == AsI64(num1) IN CheckedAdd(num2, unum1)
  ELSE None

\* Timespec::stub_checked_sub(num1: u64, num2: i64)
StubCheckedSub(num1, num2) ==
  IF num1 < U64Max \div 2 /\ num1 > U64Min \div 2
  THEN LET unum1 == AsI64(num1) IN CheckedSub(num2, unum1)
  ELSE None

\* Timespec { tv_sec, tv_nsec } and Duration { secs, nanos }
Timespec(tv_sec, tv_nsec) == [tv_sec |-> tv_sec, tv_nsec |-> tv_nsec]
Duration(secs, nanos) == [secs |-> secs, nanos |-> nanos]

\* The nanosecond sums and differences are computed in u32 and i32, which
\* keep their 32 bits: a value fits when it is within the type's range.
FitsU32(x) == x >= 0 /\ x \div 2 <= 2^30 + (2^30 - 1)
FitsI32(x) == x >= -(2^30) - 2^30 /\ x <= 2^30 + (2^30 - 1)

\* The result of a duration operation: the Option returned, and whether a
\* nanosecond expression left its type on the way.
TimeResult(out, overflow) == [out |-> out, overflow |-> overflow]

\* Variant: a carry into the seconds leaves the nanoseconds as they are.
CheckedAddDuration_KeepsNanos(self, other) ==
  LET first == StubCheckedAdd(other.secs, self.tv_sec)
  IN IF first.some
     THEN LET sum == other.nanos + self.tv_nsec
          IN IF sum >= NSEC_PER_SEC
             THEN LET sec_final == CheckedAdd(first.val, 1)
                  IN IF sec_final.some
                     THEN TimeResult(Some(Timespec(sec_final.val, sum)), ~FitsU32(sum))
                     ELSE TimeResult(None, ~FitsU32(sum))
             ELSE TimeResult(Some(Timespec(first.val, sum)), ~FitsU32(sum))
     ELSE TimeResult(None, FALSE)

\* Timespec::checked_add_duration(&self, other: &Duration)
CheckedAddDuration(self, other) ==
  LET first == StubCheckedAdd(other.secs, self.tv_sec)
  IN IF first.some
     THEN LET sum == other.nanos + self.tv_nsec
          IN IF sum >= NSEC_PER_SEC
             THEN LET nsec == sum - NSEC_PER_SEC
                      sec_final == CheckedAdd(first.val, 1)
                  IN IF sec_final.some
                     THEN TimeResult(Some(Timespec(sec_final.val, nsec)), ~FitsU32(sum))
                     ELSE TimeResult(None, ~FitsU32(sum))
             ELSE TimeResult(Some(Timespec(first.val, sum)), ~FitsU32(sum))
     ELSE TimeResult(None, FALSE)

\* Timespec::checked_sub_duration(&self, other: &Duration)
CheckedSubDuration(self, other) ==
  LET first == StubCheckedSub(other.secs, self.tv_sec)
  IN IF first.some
     THEN LET diff == self.tv_nsec - other.nanos
          IN IF diff < 0
             THEN LET nsec == diff + NSEC_PER_SEC
                      sec_final == CheckedSub(first.val, 1)
                  IN IF sec_final.some
                     THEN TimeResult(Some(Timespec(sec_final.val, nsec)),
                                     ~FitsI32(diff) \/ ~FitsI32(nsec))
                     ELSE TimeResult(None, ~FitsI32(diff) \/ ~FitsI32(nsec))
             ELSE TimeResult(Some(Timespec(first.val, diff)), ~FitsI32(diff))
     ELSE TimeResult(None, FALSE)

\* A Timespec and a Duration an operation is about to be applied to; the
\* nanosecond fields under test are the ends and the middle of [0, 1e9).
InitTime ==
  /\ phase = "strategy"
  /\ strat = RangeStrategy(0, MaxVal)
  /\ tree = NoTree
  /\ hist = <<>>
  /\ simplified = FALSE
  /\ exhausted = FALSE
  /\ delRun = 0
  /\ delCount = <<>>
  /\ delOrder = <<>>
  /\ shrOrder = <<>>
  /\ LET NanoSamples == {0, 1, NSEC_PER_SEC \div 2, NSEC_PER_SEC - 1}
     IN conv \in {[op |-> "pending",
                    arg |-> [self |-> Timespec(s, n), other |-> Duration(d, m)]] :
                    s \in I64Min..I64Max, n \in NanoSamples,
                    d \in U64Min..U64Max, m \in NanoSamples}

\* One operation applied to the arguments.
CallTime(op, out) ==
  /\ conv.op = "pending"
  /\ conv' = [op |-> op, arg |-> conv.arg, out |-> out]
  /\ UNCHANGED <<phase, strat, tree, hist, simplified, exhausted, delRun, delCount,
                 delOrder, shrOrder>>

NextTime ==
  \/ CallTime("stub_checked_add",
              StubCheckedAdd(conv.arg.other.secs, conv.arg.self.tv_sec))
  \/ CallTime("stub_checked_sub",
              StubCheckedSub(conv.arg.other.secs, conv.arg.self.tv_sec))
  \/ CallTime("checked_add_duration", CheckedAddDuration(conv.arg.self, conv.arg.other))
  \/ CallTime("checked_sub_duration", CheckedSubDuration(conv.arg.self, conv.arg.other))

SpecTime == InitTime /\ [][NextTime]_vars

\* ------------------------------------------------------------ the project
\* ArtifactType, and the types try_new looks for next to each model file.
ArtifactTypes ==
  {"Goto", "Metadata", "SymTab", "SymTabGoto", "TypeMap", "VTableRestriction",
   "PrettyNameMap"}
OptionalTypes == <<"SymTab", "TypeMap", "VTableRestriction", "PrettyNameMap">>

\* A path is a file stem with the extension of an artifact type.
Path(stem, typ) == [stem |-> stem, typ |-> typ]

\* convert_type(path, from, to): the same file name with the extension of to
\* in place of the extension of from ("/tmp/file.kani_metadata.json" as Goto
\* is "/tmp/file.goto").
ConvertType(path, from, to) == Path(path.stem, to)

\* path.canonicalize(): the canonical path of a file that exists, an error
\* for one that does not.  The paths under test are canonical already.
Canonicalize(path, files) == IF path \in files THEN Some(path) ELSE None

\* Artifact { path, typ }
Artifact(path, typ) == [path |-> path, typ |-> typ]

\* Artifact::has_type
HasType(artifact, typ) == artifact.typ = typ

\* Artifact::try_new(path, typ)
ArtifactTryNew(path, typ, files) ==
  LET canon == Canonicalize(path, files)
  IN IF canon.some THEN Some(Artifact(canon.val, typ)) ELSE None

\* Artifact::try_from(artifact, typ)
ArtifactTryFrom(artifact, typ, files) ==
  ArtifactTryNew(ConvertType(artifact.path, artifact.typ, typ), typ, files)

\* HarnessMetadata, as far as the project reads it: goto_file
Harness(goto_file) == [goto_file |-> goto_file]

\* The artifacts try_new collects for one harness: those of the optional
\* types that exist, then the model file and the goto binary linked from it.
HarnessArtifacts(harness, files) ==
  LET symtab_out == Artifact(harness.goto_file.val, "SymTabGoto")
      goto == Artifact(ConvertType(symtab_out.path, symtab_out.typ, "Goto"), "Goto")
      F[i \in 0..Len(OptionalTypes)] ==
        IF i = 0 THEN <<>>
        ELSE LET a == ArtifactTryFrom(symtab_out, OptionalTypes[i], files)
             IN IF a.some THEN Append(F[i - 1], a.val) ELSE F[i - 1]
  IN F[Len(OptionalTypes)] \o <<symtab_out, goto>>

\* Project::try_new: the artifacts of every harness, in order; not merged.
ProjectTryNew(harnesses, files) ==
  LET F[i \in 0..Len(harnesses)] ==
        IF i = 0 THEN <<>> ELSE F[i - 1] \o HarnessArtifacts(harnesses[i], files)
  IN [harnesses |-> harnesses, artifacts |-> F[Len(harnesses)], merged_artifacts |-> FALSE]

\* cargo_project with --function: one linked goto binary and one metadata
\* file, a mock harness on the linked model, and merged_artifacts set.
ProjectMerged ==
  LET goto_artifact == Artifact(Path("cbmc-linked", "Goto"), "Goto")
  IN [harnesses |-> <<Harness(Some(ConvertType(goto_artifact.path, "Goto", "SymTabGoto")))>>,
      artifacts |-> <<goto_artifact, Artifact(Path("cbmc-linked", "Metadata"), "Metadata")>>,
      merged_artifacts |-> TRUE]

\* The files a project leaves on disk next to the ones it was built from.
ProjectFiles(project, files) ==
  files \cup {project.artifacts[i].path : i \in DOMAIN project.artifacts}

\* Project::get_harness_artifact(&self, harness, typ)
GetHarnessArtifact(self, harness, typ, files) ==
  LET expected_path ==
        IF self.merged_artifacts THEN None
        ELSE IF harness.goto_file.some
             THEN Canonicalize(ConvertType(harness.goto_file.val, "SymTabGoto", typ), files)
             ELSE None
      Matches(artifact) ==
        /\ HasType(artifact, typ)
        /\ (IF expected_path.some THEN expected_path.val = artifact.path ELSE TRUE)
      \* self.artifacts.iter().find(..): the first artifact that matches
      hits == {i \in DOMAIN self.artifacts : Matches(self.artifacts[i])}
  IN IF hits = {} THEN None
     ELSE Some(self.artifacts[CHOOSE i \in hits : \A j \in hits : i <= j])

\* The crates under test: up to two harnesses with model files a and b, and
\* up to MaxFiles files of the optional types next to them.
MaxFiles == 3
Stems == {"a", "b"}

InitProject ==
  /\ phase = "strategy"
  /\ strat = RangeStrategy(0, MaxVal)
  /\ tree = NoTree
  /\ hist = <<>>
  /\ simplified = FALSE
  /\ exhausted = FALSE
  /\ delRun = 0
  /\ delCount = <<>>
  /\ delOrder = <<>>
  /\ shrOrder = <<>>
  /\ LET Model(x) == Harness(Some(Path(x, "SymTabGoto")))
         HarnessLists ==
           {<<Model(x)>> : x \in Stems}
             \cup {<<Model(p[1]), Model(p[2])>> :
                     p \in {q \in Stems \X Stems : q[1] # q[2]}}
         OptionalFiles ==
           {Path(x, OptionalTypes[i]) : x \in Stems, i \in DOMAIN OptionalTypes}
     IN conv \in {[op |-> "build", harnesses |-> h,
                    files |-> opt \cup {h[i].goto_file.val : i \in DOMAIN h}] :
                    h \in HarnessLists,
                    opt \in {o \in SUBSET OptionalFiles : Cardinality(o) <= MaxFiles}}

\* standalone_project, or cargo_project without --function
BuildProject ==
  /\ conv.op = "build"
  /\ LET project == ProjectTryNew(conv.harnesses, conv.files)
     IN conv' = [op |-> "project", project |-> project,
                 files |-> ProjectFiles(project, conv.files)]
  /\ UNCHANGED <<phase, strat, tree, hist, simplified, exhausted, delRun, delCount,
                 delOrder, shrOrder>>

\* cargo_project with --function
BuildMergedProject ==
  /\ conv.op = "build"
  /\ conv' = [op |-> "project", project |-> ProjectMerged,
              files |-> ProjectFiles(ProjectMerged, conv.files)]
  /\ UNCHANGED <<phase, strat, tree, hist, simplified, exhausted, delRun, delCount,
                 delOrder, shrOrder>>

\* project.get_harness_artifact(harness, typ) for a harness of the project,
\* or one without a goto_file
CallGetHarnessArtifact ==
  /\ conv.op = "project"
  /\ \E typ \in ArtifactTypes,
        harness \in {conv.project.harnesses[i] : i \in DOMAIN conv.project.harnesses}
                     \cup {Harness(None)} :
       conv' = [op |-> "get_harness_artifact", project |-> conv.project,
                files |-> conv.files, harness |-> harness, typ |-> typ,
                out |-> GetHarnessArtifact(conv.project, harness, typ, conv.files)]
  /\ UNCHANGED <<phase, strat, tree, hist, simplified, exhausted, delRun, delCount,
                 delOrder, shrOrder>>

NextProject == BuildProject \/ BuildMergedProject \/ CallGetHarnessArtifact

SpecProject == InitProject /\ [][NextProject]_vars

\* ================================================================== claims
\* The calls the log holds, most recent last.
HLen == Len(hist)
Last == hist[HLen]
Prev == hist[HLen - 1]
Prev2 == hist[HLen - 2]
IsVec == phase = "live" /\ tree.k = "vec"
Included(t) == t.included_elements
Count(t) == Cardinality(t.included_elements)
\* The call c, whose effect is before -> after, was a simplify() that deleted.
Deleted(c, after) == c.op = "simplify" /\ c.ret /\ Removed(c.before, after) # {}
\* The call c was a simplify() that shrank an element.
Shrank(c, after) == c.op = "simplify" /\ c.ret /\ Removed(c.before, after) = {}

\* C1: a successful simplify() immediately followed by complicate() restores
\* the value current() had just before that simplify(), whether the simplify
\* step was a deletion or an element shrink (and for tuple and flatten trees).
C1_UndoCorrectness ==
  (phase = "live" /\ HLen >= 2 /\ Last.op = "complicate"
     /\ Prev.op = "simplify" /\ Prev.ret)
  => Current(tree) = Current(Prev.before)

\* C1 witness: an element shrink undone, on a tree that has also had a
\* deletion undone earlier in the same search.
C1_Witness ==
  /\ IsVec /\ HLen >= 2
  /\ Last.op = "complicate" /\ Last.ret
  /\ Shrank(Prev, Last.before)
  /\ Current(tree) # Current(Last.before)
  /\ \E i \in DOMAIN delCount : delCount[i] = 1 /\ i \in Included(tree)

\* C2: after two consecutive successful deletions (i then j) one complicate()
\* re-includes only j and returns true; a second consecutive complicate()
\* returns false and leaves i excluded.
C2_UndoOnlyLastDeletion ==
  (IsVec /\ HLen >= 3 /\ Last.op = "complicate"
     /\ Deleted(Prev, Last.before) /\ Deleted(Prev2, Prev.before))
  => LET i == Removed(Prev2.before, Prev.before)
         j == Removed(Prev.before, Last.before)
         again == Complicate(tree)
     IN /\ Last.ret
        /\ Included(tree) = Included(Last.before) \cup j
        /\ i \cap Included(tree) = {}
        /\ ~again.ret
        /\ again.tree = tree

C2_Witness ==
  /\ IsVec /\ HLen >= 3 /\ Last.op = "complicate" /\ Last.ret
  /\ Deleted(Prev, Last.before) /\ Deleted(Prev2, Prev.before)
  /\ Count(tree) = VecLen(tree) - 1

\* C3: complicate() on a tree on which no simplify() has yet succeeded
\* returns false and leaves the whole tree state unchanged (vec, tuple and
\* flatten trees).
C3_ComplicateFreshNoEffect ==
  (phase = "live" /\ HLen >= 1 /\ Last.op = "complicate" /\ ~simplified)
  => ~Last.ret /\ ~Last.panic /\ tree = Last.before

C3_Witness ==
  /\ IsVec /\ HLen = 1 /\ Last.op = "complicate" /\ ~simplified
  /\ VecLen(tree) >= 2 /\ tree.min_size < VecLen(tree)

\* C4: the tree returned by new_tree of a bounded-collection strategy with
\* size bound [low, high] has an initial current() of length within
\* [low, high].
C4_InitialLengthInBounds ==
  (phase = "live" /\ strat.k = "vec" /\ hist = <<>>)
  => /\ Len(Current(tree)) >= strat.size.start
     /\ Len(Current(tree)) <= strat.size.end

C4_Witness ==
  /\ phase = "live" /\ strat.k = "vec" /\ hist = <<>>
  /\ strat.size.start >= 1 /\ strat.size.start < strat.size.end
  /\ Len(Current(tree)) = strat.size.end

\* C5: across repeated simplify() calls the length of current() never
\* increases, and once the number of included indices equals the floor no
\* further deletion occurs: the included set stays as it is and the cursor
\* is in the element-shrink phase.
C5_ShrinkMonotone ==
  (IsVec /\ HLen >= 1 /\ Last.op = "simplify")
  => /\ Len(Current(tree)) <= Len(Current(Last.before))
     /\ \A i \in 1..HLen :
          ((\A j \in i..HLen : hist[j].op = "simplify")
             /\ Count(hist[i].before) = hist[i].before.min_size)
          => /\ Included(tree) = Included(hist[i].before)
             /\ tree.shrink.t = "ShrinkElement"

\* C5 witness: deletions brought the tree to a non-zero floor and two further
\* simplify() calls followed, the last one shrinking an element.
C5_Witness ==
  /\ IsVec /\ HLen >= 2 /\ delRun >= 1 /\ tree.min_size >= 1
  /\ Prev.op = "simplify" /\ Count(Prev.before) = tree.min_size
  /\ Shrank(Last, tree)

\* C6: the number of consecutive simplify() calls that succeed by deleting
\* an element (no complicate() in between) is at most n - f.
C6_DeletionRunBounded ==
  IsVec => delRun <= VecLen(tree) - tree.min_size

C6_Witness ==
  /\ IsVec /\ tree.min_size >= 1 /\ delRun >= 2
  /\ delRun = VecLen(tree) - tree.min_size

\* C7: once simplify() has returned false, every later simplify() returns
\* false and changes nothing, whatever complicate() calls are interleaved;
\* the cursor stays beyond the sequence end.
C7_ExhaustionTerminal ==
  (IsVec /\ exhausted)
  => /\ Simplify(tree) = Result(FALSE, tree)
     /\ tree.shrink.t = "ShrinkElement" /\ tree.shrink.ix >= VecLen(tree)
     /\ (HLen >= 1 /\ Last.op = "simplify"
           /\ Last.before.shrink.t = "ShrinkElement"
           /\ Last.before.shrink.ix >= VecLen(tree))
          => (~Last.ret /\ tree = Last.before)

\* C7 witness: exhausted, then a complicate() that re-included an element,
\* then simplify() again: false, nothing changed.
C7_Witness ==
  /\ IsVec /\ exhausted /\ HLen >= 3
  /\ Prev2.op = "simplify" /\ ~Prev2.ret
  /\ Prev.op = "complicate" /\ Prev.ret
  /\ Last.op = "simplify" /\ ~Last.ret /\ tree = Last.before
  /\ \E i \in Included(tree) : Simplify(tree.elements[i + 1]).ret

\* C8: simplify() on a bounded-collection tree returns whether the candidate
\* changed: on false the included set and every element value are unchanged;
\* on true exactly one index left the included set, or exactly one included
\* element tree made one successful simplify step.
C8_SimplifyReportsChange ==
  (IsVec /\ HLen >= 1 /\ Last.op = "simplify")
  => LET b == Last.before
         n == VecLen(b)
     IN /\ VecLen(tree) = n
        /\ ~Last.ret =>
             /\ Included(tree) = Included(b)
             /\ \A i \in 1..n : Current(tree.elements[i]) = Current(b.elements[i])
             /\ Current(tree) = Current(b)
        /\ Last.ret =>
             \/ /\ Included(tree) \subseteq Included(b)
                /\ Cardinality(Included(b) \ Included(tree)) = 1
                /\ tree.elements = b.elements
             \/ /\ Included(tree) = Included(b)
                /\ \E i \in Included(b) :
                     /\ Simplify(b.elements[i + 1]) = Result(TRUE, tree.elements[i + 1])
                     /\ Current(tree.elements[i + 1]) # Current(b.elements[i + 1])
                     /\ \A j \in 1..n :
                          j # i + 1 => Current(tree.elements[j]) = Current(b.elements[j])

\* C8 witness: a simplify() that shrank the element at index 2 after skipping
\* an excluded index and an element that could not shrink.
C8_Witness ==
  /\ IsVec /\ HLen >= 1 /\ Shrank(Last, tree)
  /\ tree.shrink = ShrinkElement(2)
  /\ Last.before.shrink.t = "DeleteElement"
  /\ Count(tree) = 2

\* C10: each index is excluded by a deletion step at most once, so an index
\* re-included by complicate() is never deleted again by a later simplify().
C10_NoIndexDeletedTwice ==
  IsVec => \A i \in DOMAIN delCount : delCount[i] <= 1

\* C10 witness: an index was deleted and re-included, and a later simplify()
\* deleted another index.
C10_Witness ==
  /\ IsVec /\ HLen >= 1 /\ Deleted(Last, tree)
  /\ \E i \in Included(tree) : delCount[i] = 1

\* C11: the shrink path proceeds in ascending index order: the indices of
\* successive successful deletions are strictly increasing, and the indices
\* targeted by successive element-shrink steps never decrease.
C11_AscendingShrinkPath ==
  IsVec =>
    /\ \A i \in 1..Len(delOrder), j \in 1..Len(delOrder) :
         i < j => delOrder[i] < delOrder[j]
    /\ \A i \in 1..Len(shrOrder), j \in 1..Len(shrOrder) :
         i < j => shrOrder[i] < shrOrder[j]

\* C11 witness: two deletions with a complicate() between them, then element
\* shrinks at two different indices.
C11_Witness ==
  /\ IsVec /\ Len(delOrder) >= 2 /\ Len(shrOrder) >= 2
  /\ \E i \in Included(tree) : delCount[i] = 1

\* C12: simplify() and complicate() of a tuple value tree both return false
\* and leave every component tree unchanged, so current() is the same before
\* and after any sequence of such calls.
C12_TupleNeverShrinks ==
  (phase = "live" /\ tree.k = "tuple")
  => /\ Simplify(tree) = Result(FALSE, tree)
     /\ Complicate(tree) = Result(FALSE, tree)
     /\ \A i \in 1..HLen :
          /\ ~hist[i].ret /\ ~hist[i].panic
          /\ hist[i].before = tree
          /\ Current(hist[i].before) = Current(tree)

\* C12 witness: a pair whose first component could itself be simplified,
\* after simplify() and complicate() calls.
C12_Witness ==
  /\ phase = "live" /\ tree.k = "tuple" /\ Len(tree.tree) = 2
  /\ HLen >= 2 /\ Last.op = "complicate" /\ Prev.op = "simplify"
  /\ Simplify(tree.tree[1]).ret

SumBound == 2020

C14_ComposeSumBelow ==
  (phase = "live" /\ strat = NearbyStrategy) =>
    LET centre == Current(tree.source.meta.source)
        ab == Current(tree)
    IN /\ centre \in CentreLo..(CentreHi - 1)
       /\ ab[1] \in (centre - Spread)..(centre + Spread - 1)
       /\ ab[2] \in (centre - Spread)..(centre + Spread - 1)
       /\ ab[1] + ab[2] < SumBound

\* The largest pair: centre 999, a = b = 1008.
C14_Witness ==
  /\ phase = "live" /\ strat = NearbyStrategy
  /\ Current(tree.source.meta.source) = CentreHi - 1
  /\ Current(tree) = <<CentreHi + Spread - 2, CentreHi + Spread - 2>>

\* ---------------------------------------------------------------------- C15
\* The weight written before the option whose value the tree holds (the
\* options of a list under test hold distinct values).
ZeroWeightProduced ==
  \E i \in 1..Len(strat.options) :
    strat.options[i][1] = 0 /\ Current(tree) = strat.options[i][2].value

\* C15 as stated: for every weighted choice list, no option written with
\* weight zero is the one whose value is produced.
C15_ZeroWeightNeverChosen ==
  (phase = "live" /\ strat.k = "prop_oneof") => ~ZeroWeightProduced

\* C15: for every weighted choice list of two or more options, no option
\* written with weight zero is the one whose value is produced, so
\* [1 => Just(0), 2 => Just(2), 0 => Just(3)] yields only even values; a list
\* of exactly one option is that option whatever weight is written, zero
\* included.
C15_ZeroWeightNeverChosenOfSeveral ==
  (phase = "live" /\ strat.k = "prop_oneof") =>
    /\ Len(strat.options) >= 2 =>
         /\ ~ZeroWeightProduced
         /\ tree.k = "union" /\ strat.options[tree.pick + 1][1] > 0
         /\ Current(tree) = strat.options[tree.pick + 1][2].value
    /\ Len(strat.options) = 1 => Current(tree) = strat.options[1][2].value
    /\ strat.options = <<<<1, Just(0)>>, <<2, Just(2)>>, <<0, Just(3)>>>> =>
         Current(tree) % 2 = 0

C15_Witness ==
  /\ phase = "live"
  /\ strat = OneofStrategy(<<<<1, Just(0)>>, <<2, Just(2)>>, <<0, Just(3)>>>>)
  /\ Current(tree) = 2

\* ---------------------------------------------------------------------- C16
RECURSIVE Whole(_)
\* No part of the tree stands in for a component that was rejected.
Whole(t) ==
  CASE t.k = "leaf" -> TRUE
    [] t.k = "rejected" -> FALSE
    [] t.k = "tuple" -> \A i \in 1..Len(t.tree) : Whole(t.tree[i])
    [] t.k = "vec" -> \A i \in 1..Len(t.elements) : Whole(t.elements[i])
    [] t.k = "flatten" -> Whole(t.meta) /\ Whole(t.current)
    [] t.k = "map" -> Whole(t.source)
    [] t.k = "union" -> Whole(t.tree)

\* C16: when a component of a collection, a tuple, a flatten, an independent
\* flatten or an independent flatten-map rejects, new_tree of the composite
\* returns that component's rejection and no tree, and nothing after the
\* rejecting component has been generated; a tree that is returned holds no
\* stand-in for a rejected component.
C16_RejectionPropagates ==
  strat \in RejectingStrategies =>
    /\ phase = "rejected" =>
         /\ tree.k = "rejected"
         /\ strat.k = "vec" =>
              /\ tree.reason = strat.element.whence
              /\ tree.generated \in 0..(strat.size.end - 1)
         /\ strat.k # "vec" => tree.reason = tree.generated
    /\ phase = "live" => tree.k # "rejected" /\ Whole(tree)

\* The second component of a pair rejects after the first was generated.
C16_Witness ==
  /\ phase = "rejected" /\ strat.k = "tuple"
  /\ strat.s[1].k = "filter"
  /\ tree = Rejected(1, 1)

C18_CanonicalInterval ==
  LET a == conv.arg.a
      b == conv.arg.b
  IN /\ conv.op = "exact" => conv.out = Ok(SizeRangeNew(a, a))
     /\ conv.op = "range" => conv.out = Ok(SizeRangeNew(a, b - 1))
     /\ conv.op = "range_to" => conv.out = Ok(SizeRangeNew(0, b - 1))
     /\ conv.op = "pair" => conv.out = Ok(SizeRangeNew(a, b - 1))
     /\ conv.op = "range_inclusive" => conv.out = Ok(SizeRangeNew(a, b))
     /\ conv.op = "range_to_inclusive" => conv.out = Ok(SizeRangeNew(0, b))
     /\ conv.op = "default" => conv.out = Ok(SizeRangeNew(0, 99))
     /\ conv.op = "arbitrary_vec" => conv.out = Ok(SizeRangeNew(0, 99))

\* ---------------------------------------------------------------------- C19
\* The exclusive end an outcome holds: end_excl returns it, the conversion
\* into Range<usize> holds it as the range's end.
ExclusiveEnd(out) == IF conv.op = "end_excl" THEN out.val ELSE out.val.end

\* C19 as stated: converted to a half-open form, by end_excl or into
\* Range<usize>, a bound with high = usize::MAX gets the exclusive end
\* usize::MAX without overflowing, and any other bound gets high + 1.
C19_HalfOpenClamps ==
  conv.op \in {"end_excl", "into_range"} =>
    /\ ~conv.out.panic
    /\ ExclusiveEnd(conv.out) = IF conv.arg.b = UsizeMax THEN UsizeMax ELSE conv.arg.b + 1

\* C19: end_excl gives the exclusive end usize::MAX for a bound with
\* high = usize::MAX, without overflowing, and high + 1 for any other bound.
\* The conversion into Range<usize> agrees for high < usize::MAX and does
\* not clamp: at high = usize::MAX its high + 1 overflows (a panic, or the
\* end 0).
C19_EndExclClamps ==
  /\ conv.op = "end_excl" =>
       /\ ~conv.out.panic
       /\ conv.out.val = IF conv.arg.b = UsizeMax THEN UsizeMax ELSE conv.arg.b + 1
       /\ conv.out.val \in 0..UsizeMax
  /\ conv.op = "into_range" =>
       /\ conv.arg.b < UsizeMax =>
            conv.out = Ok(Range(conv.arg.a, EndExcl(SizeRangeNew(conv.arg.a, conv.arg.b))))
       /\ conv.arg.b = UsizeMax => conv.out \in {Panic, Ok(Range(conv.arg.a, 0))}

C19_Witness ==
  /\ conv.op = "end_excl"
  /\ conv.arg.b = UsizeMax
  /\ conv.out = Ok(UsizeMax)

\* ---------------------------------------------------------------------- C20
\* C20 as stated: converting [low, high] into Range<usize> returns
\* low..(high + 1), and panics exactly when high = usize::MAX.
C20_IntoRangePanicsAtMax ==
  conv.op = "into_range" =>
    /\ conv.out.panic <=> conv.arg.b = UsizeMax
    /\ ~conv.out.panic => conv.out.val = Range(conv.arg.a, conv.arg.b + 1)

\* ---------------------------------------------------------------------- C27
\* C27: a simplify() made with the cursor on "delete index i", i inside the
\* sequence and the included count above the floor, removes exactly i from
\* the included set, records that deletion as the last action, moves the
\* cursor to "delete index i+1", returns true, and leaves every element tree,
\* every other inclusion marker and the floor as they were.
C27_DeletionStep ==
  (IsVec /\ HLen >= 1 /\ Last.op = "simplify"
     /\ Last.before.shrink.t = "DeleteElement"
     /\ Last.before.shrink.ix < VecLen(Last.before)
     /\ Count(Last.before) > Last.before.min_size)
  => LET b == Last.before
         i == b.shrink.ix
     IN /\ Last.ret /\ ~Last.panic
        /\ i \in Included(b)
        /\ Included(tree) = Included(b) \ {i}
        /\ tree.prev_shrink = DeleteElement(i)
        /\ tree.shrink = DeleteElement(i + 1)
        /\ tree.elements = b.elements
        /\ tree.min_size = b.min_size

\* C27 witness: the second deletion in a row, on a tree of three elements.
C27_Witness ==
  /\ IsVec /\ HLen >= 2 /\ Deleted(Last, tree) /\ Deleted(Prev, Last.before)
  /\ VecLen(tree) = 3
  /\ tree.shrink = DeleteElement(2)

\* ---------------------------------------------------------------------- C28
\* The tree b is one whose next simplify() ends the deletion phase.
EndsDeletion(b) ==
  /\ b.shrink.t = "DeleteElement"
  /\ b.shrink.ix >= VecLen(b) \/ Count(b) = b.min_size

\* The included indices of b whose element tree can make a simplify step.
CanShrink(b) == {i \in Included(b) : Simplify(b.elements[i + 1]).ret}

\* C28: the simplify() that ends the deletion phase (cursor beyond the end,
\* or included count at the floor) puts the cursor in the shrink phase and
\* goes on scanning from index 0 in the same call: it returns true iff some
\* included element can simplify, the element it simplified is the lowest
\* such index, and with none it returns false with the cursor past the end.
C28_PhaseChangeFallsThrough ==
  (IsVec /\ HLen >= 1 /\ Last.op = "simplify" /\ EndsDeletion(Last.before))
  => LET b == Last.before
         can == CanShrink(b)
     IN /\ ~Last.panic
        /\ tree.shrink.t = "ShrinkElement"
        /\ Included(tree) = Included(b)
        /\ Last.ret <=> can # {}
        /\ can # {} =>
             LET i == CHOOSE x \in can : \A y \in can : x <= y
             IN /\ tree.shrink = ShrinkElement(i)
                /\ tree.prev_shrink = ShrinkElement(i)
                /\ tree.elements[i + 1] = Simplify(b.elements[i + 1]).tree
        /\ can = {} =>
             /\ tree.shrink = ShrinkElement(VecLen(b))
             /\ tree.prev_shrink = b.prev_shrink

\* C28 witness: the floor ends the deletion phase with the cursor inside the
\* sequence, and the same call shrinks an element after one that could not.
C28_Witness ==
  /\ IsVec /\ HLen >= 1 /\ Last.op = "simplify" /\ EndsDeletion(Last.before)
  /\ Last.before.shrink.ix < VecLen(tree)
  /\ Last.ret
  /\ tree.shrink.ix >= 1

\* ---------------------------------------------------------------------- C29
\* C29: the two phases are strictly ordered: a call that leaves the cursor
\* in the deletion phase has touched no element tree, and once the cursor is
\* in the shrink phase no call, simplify() or complicate(), takes it back or
\* deletes an index, even after complicate() re-included one and raised the
\* included count above the floor.
C29_StrictPhaseOrder ==
  (IsVec /\ HLen >= 1)
  => LET b == Last.before
     IN /\ tree.shrink.t = "DeleteElement" =>
             /\ b.shrink.t = "DeleteElement"
             /\ tree.elements = b.elements
        /\ b.shrink.t = "ShrinkElement" =>
             /\ tree.shrink.t = "ShrinkElement"
             /\ tree.shrink.ix >= b.shrink.ix
             /\ Removed(b, tree) = {}

\* C29 witness: in the shrink phase complicate() re-included an index, the
\* count is above the floor, and the simplify() that followed deleted nothing.
C29_Witness ==
  /\ IsVec /\ HLen >= 2
  /\ Prev.op = "complicate" /\ Prev.ret
  /\ Prev.before.shrink.t = "ShrinkElement"
  /\ Included(Last.before) # Included(Prev.before)
  /\ Count(Last.before) > Last.before.min_size
  /\ Last.op = "simplify"
  /\ Included(tree) = Included(Last.before)

\* ---------------------------------------------------------------------- C30
\* Where the scan of the call on b starts.
ScanFrom(b) == IF b.shrink.t = "ShrinkElement" THEN b.shrink.ix ELSE 0

\* C30: in the shrink phase an excluded index is skipped: a simplify() call
\* leaves the element tree of every excluded index untouched, a reported
\* shrink is on an included index, and every index the cursor passed over
\* was excluded or held an element that could not simplify.
C30_ExcludedSkipped ==
  (IsVec /\ HLen >= 1 /\ Last.op = "simplify")
  => LET b == Last.before
     IN /\ \A i \in 0..(VecLen(b) - 1) :
             i \notin Included(b) => tree.elements[i + 1] = b.elements[i + 1]
        /\ tree.shrink.t = "ShrinkElement" =>
             /\ Last.ret => tree.shrink.ix \in Included(b)
             /\ \A i \in ScanFrom(b)..(tree.shrink.ix - 1) :
                  i \notin Included(b) \/ ~Simplify(b.elements[i + 1]).ret

\* C30 witness: the call passed over an excluded index whose element could
\* have simplified, and shrank a later, included one.
C30_Witness ==
  /\ IsVec /\ HLen >= 1 /\ Last.op = "simplify" /\ Last.ret
  /\ tree.shrink.t = "ShrinkElement"
  /\ \E i \in ScanFrom(Last.before)..(tree.shrink.ix - 1) :
       /\ i \notin Included(Last.before)
       /\ Simplify(Last.before.elements[i + 1]).ret

\* ---------------------------------------------------------------------- C26
\* C26: prop_oneof! with exactly one option is that option unmodified,
\* whatever weight is written before it (no union is built, and the trees
\* are the option's own); the form without weights is the weighted form with
\* weight 1 before every option, so each listed option can be the one drawn.
C26_OneofForms ==
  /\ (phase = "live" /\ strat.k = "prop_oneof" /\ Len(strat.options) = 1) =>
       /\ PropOneof(strat.options) = strat.options[1][2]
       /\ tree.k # "union"
       /\ tree \in NewTrees(strat.options[1][2])
  /\ (phase = "live" /\ strat.k = "prop_oneof_list") =>
       LET n == Len(strat.items)
           ones == [i \in 1..n |-> <<1, strat.items[i]>>]
       IN /\ PropOneofList(strat.items) = PropOneof(ones)
          /\ tree \in NewTrees(OneofStrategy(ones))
          /\ NewTrees(strat) = NewTrees(OneofStrategy(ones))
          /\ \A i \in 1..n :
               \E t \in NewTrees(strat) : Current(t) = strat.items[i].value
          /\ n = 1 => tree.k # "union"
          /\ n >= 2 => tree.k = "union" /\ Current(tree) = strat.items[tree.pick + 1].value

\* C26 witness: the last of three options listed without weights is drawn.
C26_Witness ==
  /\ phase = "live"
  /\ strat = OneofListStrategy(OneofItems)
  /\ tree.k = "union" /\ tree.pick = 2
  /\ Current(tree) = 3

\* ---------------------------------------------------------------------- C25
\* C25: the pair an independent flatten-map tree exposes stays consistent:
\* right is a value of the strategy the transformation gives for the very
\* left value exposed, and no simplify() or complicate() call changes the
\* pair, so left is never shrunk or regenerated apart from right.
C25_PairConsistent ==
  (phase = "live" /\ strat.k = "ind_flatten_map") =>
    LET pair == Current(tree)
    IN /\ tree.k = "tuple" /\ Len(tree.tree) = 2
       /\ \E l \in Oks(NewTrees(strat.source)) : Current(l) = pair[1]
       /\ \E r \in Oks(NewTrees(Apply(strat.fun, pair[1]))) : Current(r) = pair[2]
       /\ \A i \in 1..HLen :
            /\ ~hist[i].ret /\ ~hist[i].panic
            /\ Current(hist[i].before) = pair

\* C25 witness: both parts could shrink on their own, and the pair has been
\* through simplify() and complicate().
C25_Witness ==
  /\ phase = "live" /\ strat.k = "ind_flatten_map"
  /\ HLen >= 2 /\ Last.op = "complicate" /\ Prev.op = "simplify"
  /\ Simplify(tree.tree[1]).ret /\ Simplify(tree.tree[2]).ret
  /\ Current(tree) = <<MaxVal, MaxVal + 1>>

\* ---------------------------------------------------------------------- C24

EvenSumBound == 40

\* C24: every element of a generated vector is the current value of its
\* element tree, which is one the element strategy can draw, and the length
\* is within the bound; so for elements x << 1 with x in [0, EvenHi) and
\* length bound 0..EvenLenEnd the sum is even and below EvenSumBound.
C24_VectorEvenSums ==
  (phase = "live" /\ strat = VecEvenStrategy) =>
    LET v == Current(tree)
    IN /\ Len(v) >= 0 /\ Len(v) < EvenLenEnd
       /\ Len(v) = Len(tree.elements)
       /\ \A i \in 1..Len(v) :
            /\ tree.elements[i] \in Oks(NewTrees(strat.element))
            /\ v[i] = Current(tree.elements[i])
            /\ \E x \in 0..(EvenHi - 1) : v[i] = Shl1(x)
       /\ SumSeq(v) % 2 = 0
       /\ SumSeq(v) < EvenSumBound

\* C24 witness: the one-element vector holding the largest element, 18.
C24_Witness ==
  /\ phase = "live" /\ strat = VecEvenStrategy
  /\ Current(tree) = <<Shl1(EvenHi - 1)>>

\* ---------------------------------------------------------------------- C23
\* The vector tree under a set or map tree, and the vector strategy under a
\* set or map strategy.
VecUnder(t) == t.source.source

\* C23: a set or map strategy with size bound [low, high] produces only
\* collections of low to high entries, whatever duplicates the element or key
\* strategy yields (2..3 gives exactly 2 entries); it gives up, with its own
\* whence, only when some vector it can draw has fewer than low distinct
\* entries, and never substitutes a smaller collection.
C23_MinSizeKept ==
  strat.k = "filter_fn" =>
    LET size == VecUnder(strat).size
    IN /\ strat.fun.min = size.start
       /\ phase = "live" =>
            /\ Cardinality(Current(tree)) \in size.start..size.end
            /\ Cardinality(Current(tree)) <= Len(Current(VecUnder(tree)))
            /\ strat \in TestSetStrategies => Cardinality(Current(tree)) = 2
       /\ phase = "rejected" =>
            /\ tree = Rejected(strat.whence, 0)
            /\ \E t \in NewTrees(strat.source) : Cardinality(Current(t)) < size.start

\* C23 witness: a set of the fewest entries allowed, made from a vector that
\* is longer because it holds a duplicate.
C23_Witness ==
  /\ phase = "live" /\ strat.k = "filter_fn"
  /\ strat.source.fun = "VecToHashSet"
  /\ Cardinality(Current(tree)) = VecUnder(strat).size.start
  /\ Len(Current(VecUnder(tree))) = 3
  /\ Cardinality(Current(tree)) = 2

\* ---------------------------------------------------------------------- C21
\* C21: for vec(1..20, 5..20) and a body that fails when the sum is 9 or
\* more, every value the runner reports after its simplify/complicate loop
\* is a failing one of 5 to 9 elements that sum to exactly 9.
C21_MinimalFailure ==
  phase = "reported" =>
    LET v == Current(tree)
    IN /\ Fails(v)
       /\ Len(v) >= LenStart /\ Len(v) <= FailSum
       /\ SumSeq(v) = FailSum

\* C21 witness: nine elements of the least value are reported.
C21_Witness ==
  /\ phase = "reported"
  /\ Len(Current(tree)) = FailSum
  /\ \A i \in 1..Len(Current(tree)) : Current(tree)[i] = ElemLo

\* ---------------------------------------------------------------------- C22
\* C22 as stated: shrinking converges to exactly 5 elements, each of the least
\* value 1, that sum to the boundary 9.
C22_FiveOnesSumNine ==
  phase = "reported" =>
    LET v == Current(tree)
    IN /\ Len(v) = LenStart
       /\ \A i \in 1..Len(v) : v[i] = ElemLo
       /\ SumSeq(v) = FailSum

\* C22 amended: shrinking converges to at least 5 elements (the floor), each
\* at least the least value 1, that sum to exactly the boundary 9; so 5
\* elements are reported only with some element above 1, and all elements are
\* 1 only when there are 9 of them.  Every element still included has been
\* offered for deletion and the search has passed the last element.
C22_FloorAndBoundary ==
  phase = "reported" =>
    LET v == Current(tree)
    IN /\ Len(v) >= tree.min_size /\ tree.min_size = LenStart
       /\ \A i \in 1..Len(v) : v[i] >= ElemLo
       /\ SumSeq(v) = FailSum
       /\ Len(v) = LenStart => \E i \in 1..Len(v) : v[i] > ElemLo
       /\ (\A i \in 1..Len(v) : v[i] = ElemLo) <=> Len(v) = FailSum
       /\ tree.shrink = ShrinkElement(VecLen(tree))

\* C22 witness: a value of exactly 5 elements is reported.
C22_Witness ==
  /\ phase = "reported"
  /\ Len(Current(tree)) = LenStart
  /\ Current(tree)[LenStart] > ElemLo

\* ---------------------------------------------------------------------- C31
\* The call c was a complicate() on a collection tree whose recorded action
\* was an element shrink.
UndoesShrink(c) ==
  c.op = "complicate" /\ c.before.k = "vec" /\ c.before.prev_shrink.t = "ShrinkElement"

\* C31: with an element shrink at index i recorded, complicate() delegates to
\* element i's complicate() and touches nothing else; on true it keeps the
\* record and returns true, on false it forgets the record and returns false;
\* with no record complicate() returns false and changes nothing, and a
\* simplify() that returns false leaves no record behind.
C31_ElementUndoDelegates ==
  (phase = "live" /\ HLen >= 1) =>
    /\ UndoesShrink(Last) =>
         LET b == Last.before
             ix == b.prev_shrink.ix
             r == Complicate(b.elements[ix + 1])
         IN /\ Last.ret = r.ret
            /\ tree = [b EXCEPT !.elements[ix + 1] = r.tree,
                                !.prev_shrink = IF r.ret THEN b.prev_shrink ELSE NoShrink]
    /\ (Last.op = "complicate" /\ Last.before.k = "vec"
          /\ Last.before.prev_shrink = NoShrink) =>
         ~Last.ret /\ tree = Last.before
    /\ (Last.op = "simplify" /\ Last.before.k = "vec" /\ ~Last.ret
          /\ Last.before.prev_shrink = NoShrink) =>
         tree.prev_shrink = NoShrink

\* C31 witness: an element undo succeeded and kept the record, the next
\* complicate() delegated to the same element, failed and forgot the record,
\* and the one after that returned false.
C31_Witness ==
  /\ phase = "live" /\ HLen >= 3
  /\ UndoesShrink(Prev2) /\ Prev2.ret
  /\ UndoesShrink(Prev) /\ ~Prev.ret /\ Prev.before.prev_shrink = Prev2.before.prev_shrink
  /\ Last.op = "complicate" /\ ~Last.ret /\ Last.before.prev_shrink = NoShrink

\* ---------------------------------------------------------------------- C33
\* The collection trees in play: the tree of the case and, for a collection
\* of collections, its element trees.
VecTrees ==
  IF ~IsVec THEN {}
  ELSE {tree} \cup {tree.elements[i] : i \in {j \in 1..VecLen(tree) : tree.elements[j].k = "vec"}}

\* C33: in every state reached from new_tree by simplify()/complicate() calls
\* the included set is a subset of the indices 0..n of the n generated
\* elements, n is the length the tree was generated with, and the number of
\* included indices, which is the length of current(), is at least min_size
\* and at most n.
C33_IncludedWithinBounds ==
  /\ \A t \in VecTrees :
       /\ Included(t) \subseteq 0..(VecLen(t) - 1)
       /\ Count(t) >= t.min_size
       /\ Count(t) <= VecLen(t)
       /\ Len(VecCurrent(t)) = Count(t)
  /\ IsVec =>
       /\ DOMAIN delCount = 0..(VecLen(tree) - 1)
       /\ tree.min_size = strat.size.start
       /\ HLen >= 1 => VecLen(tree) = VecLen(Last.before)

\* C33 witness: deletions have brought a tree of MaxLen elements down to a
\* floor above zero, and the last of them has been undone.
C33_Witness ==
  /\ IsVec /\ HLen >= 2
  /\ VecLen(tree) = MaxLen /\ tree.min_size = 1
  /\ Deleted(Prev, Last.before) /\ Count(Last.before) = tree.min_size
  /\ Last.op = "complicate" /\ Last.ret
  /\ Count(tree) = tree.min_size + 1

\* ---------------------------------------------------------------------- C34
\* C34: the panic at the end of simplify() is never reached: the cursor of
\* every collection tree in play is a deletion or an element shrink, so the
\* next simplify() returns true or false, and no call made so far panicked.
C34_NoUnexpectedShrinkState ==
  /\ \A t \in VecTrees :
       /\ t.shrink.t \in {"DeleteElement", "ShrinkElement"}
       /\ ~VecSimplify(t).panic
       /\ VecSimplify(t).ret \in BOOLEAN
  /\ \A i \in 1..HLen : ~hist[i].panic

\* C34 witness: one simplify() call ended the deletion phase, ran the shrink
\* loop over every element to the end and returned false.
C34_Witness ==
  /\ IsVec /\ HLen >= 1
  /\ Last.op = "simplify" /\ ~Last.ret /\ ~Last.panic
  /\ Last.before.shrink.t = "DeleteElement"
  /\ VecLen(tree) = MaxLen /\ Count(tree) = MaxLen
  /\ tree.shrink = ShrinkElement(MaxLen)

\* ---------------------------------------------------------------------- C35
\* C35: the record of the last action fits the tree: a recorded deletion at
\* index i has i within the sequence and excluded; a recorded element shrink
\* at index i has i within the sequence and included, and the cursor in the
\* element-shrink phase at an index of at least i.
C35_RecordConsistent ==
  \A t \in VecTrees :
    /\ t.prev_shrink.t \in {"None", "DeleteElement", "ShrinkElement"}
    /\ t.prev_shrink.t = "DeleteElement" =>
         /\ t.prev_shrink.ix \in 0..(VecLen(t) - 1)
         /\ t.prev_shrink.ix \notin Included(t)
    /\ t.prev_shrink.t = "ShrinkElement" =>
         /\ t.prev_shrink.ix \in 0..(VecLen(t) - 1)
         /\ t.prev_shrink.ix \in Included(t)
         /\ t.shrink.t = "ShrinkElement"
         /\ t.shrink.ix >= t.prev_shrink.ix

\* C35 witness: an element shrink at the first of MaxLen indices is on record
\* and the cursor has moved past every index.
C35_Witness ==
  /\ IsVec /\ VecLen(tree) = MaxLen
  /\ tree.prev_shrink = ShrinkElement(0)
  /\ tree.shrink = ShrinkElement(MaxLen)

\* ---------------------------------------------------------------------- C32
\* One simplify() call moves the cursor forward by no more than one step per
\* element and one for the change of phase, and never past the end.
CursorAdvancesBounded ==
  (IsVec /\ HLen >= 1 /\ Last.op = "simplify") =>
    LET b == Last.before
        from == IF b.shrink.t = "DeleteElement" THEN 0 ELSE b.shrink.ix
    IN /\ tree.shrink.ix <= VecLen(tree) + 1
       /\ tree.shrink.t = "ShrinkElement" => tree.shrink.ix - from <= VecLen(tree)
       /\ tree.shrink.t = "DeleteElement" => tree.shrink.ix = b.shrink.ix + 1

\* The search is over in a state where simplify() and complicate() both
\* return false.
SearchOver ==
  phase = "done" => ~Simplify(tree).ret /\ ~Complicate(tree).ret

\* C32: from any freshly generated tree, calling simplify() repeatedly and
\* complicate() whenever simplify() returns false reaches, after finitely
\* many calls, a state in which both return false; and each simplify() call
\* returns after a bounded number of cursor advances.
C32_SearchConverges ==
  /\ [](CursorAdvancesBounded /\ SearchOver)
  /\ <>(phase = "done")

\* C32 witness: the search over a collection of MaxLen elements is over after
\* deletions, element shrinks and an undo.
C32_Witness ==
  /\ phase = "done" /\ tree.k = "vec"
  /\ VecLen(tree) = MaxLen /\ Count(tree) < MaxLen
  /\ shrOrder # <<>>
  /\ ~Simplify(tree).ret /\ ~Complicate(tree).ret

\* ---------------------------------------------------------------------- C36
\* C36 as stated: stub_checked_add(num1, num2) and stub_checked_sub(num1, num2)
\* return what the code they are documented to stand for returns, for every
\* u64 num1 and i64 num2, num1 = 0 and num1 = i64::MAX included.
C36_StubsMatchDocumentedCode ==
  LET num1 == conv.arg.other.secs
      num2 == conv.arg.self.tv_sec
  IN /\ conv.op = "stub_checked_add" => conv.out = DocCheckedAdd(num1, num2)
     /\ conv.op = "stub_checked_sub" => conv.out = DocCheckedSub(num1, num2)

\* ---------------------------------------------------------------------- C37
\* The seconds of the exact sum or difference, with the carry or borrow.
ExactSecs(op, self, other) ==
  IF op = "checked_add_duration"
  THEN self.tv_sec + other.secs
         + (IF self.tv_nsec + other.nanos >= NSEC_PER_SEC THEN 1 ELSE 0)
  ELSE self.tv_sec - other.secs
         - (IF self.tv_nsec - other.nanos < 0 THEN 1 ELSE 0)

\* C37: in checked_add_duration and checked_sub_duration, for a Timespec with
\* tv_nsec in [0, 1e9) and any Duration, no nanosecond expression overflows; a
\* Some result has tv_nsec in [0, 1e9) and holds the exact seconds and
\* nanoseconds; and the result is None when the seconds, carry or borrow
\* included, do not fit i64.
C37_NanosInRange ==
  conv.op \in {"checked_add_duration", "checked_sub_duration"} =>
    LET self == conv.arg.self
        other == conv.arg.other
        secs == ExactSecs(conv.op, self, other)
        nanos == IF conv.op = "checked_add_duration"
                 THEN self.tv_nsec + other.nanos
                 ELSE self.tv_nsec - other.nanos
    IN /\ ~conv.out.overflow
       /\ conv.out.out.some =>
            /\ conv.out.out.val.tv_nsec \in 0..(NSEC_PER_SEC - 1)
            /\ conv.out.out.val.tv_nsec = nanos % NSEC_PER_SEC
            /\ conv.out.out.val.tv_sec = secs
       /\ secs \notin I64Min..I64Max => ~conv.out.out.some

\* C37 witness: an addition whose nanoseconds carry one second into the
\* seconds returns Some.
C37_Witness ==
  /\ conv.op = "checked_add_duration"
  /\ conv.arg.self.tv_nsec + conv.arg.other.nanos > NSEC_PER_SEC
  /\ conv.out.out.some
  /\ conv.out.out.val.tv_sec = conv.arg.self.tv_sec + conv.arg.other.secs + 1

\* ---------------------------------------------------------------------- C38
\* The artifacts of the project that have the given type, and those among
\* them at the given path.
OfType(project, typ) ==
  {project.artifacts[i] : i \in {j \in DOMAIN project.artifacts :
                                   project.artifacts[j].typ = typ}}
AtPath(project, typ, path) == {a \in OfType(project, typ) : a.path = path}

\* C38 as stated: get_harness_artifact(harness, typ) returns only an artifact
\* of type typ; with unmerged artifacts and a harness that carries a goto_file
\* it returns exactly the artifact whose path is that goto file converted to
\* typ, and None when there is no such artifact; with merged artifacts it
\* returns the single artifact of that type.
C38_ExactHarnessArtifact ==
  conv.op = "get_harness_artifact" =>
    LET project == conv.project
        out == conv.out
    IN /\ out.some => out.val.typ = conv.typ /\ out.val \in OfType(project, conv.typ)
       /\ (~project.merged_artifacts /\ conv.harness.goto_file.some) =>
            LET own == AtPath(project, conv.typ,
                              ConvertType(conv.harness.goto_file.val, "SymTabGoto", conv.typ))
            IN IF own = {} THEN ~out.some ELSE out.some /\ out.val \in own
       /\ project.merged_artifacts =>
            /\ Cardinality(OfType(project, conv.typ)) <= 1
            /\ out.some <=> OfType(project, conv.typ) # {}

====
